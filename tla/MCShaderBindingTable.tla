------------------------ MODULE MCShaderBindingTable ------------------------
(***************************************************************************)
(* Two tables and one pipeline; shader lists of up to three shaders.      *)
(***************************************************************************)
EXTENDS ShaderBindingTable, TLC

CONSTANTS t1, t2, p1, null

MCMaxShaders == 3

AllLists == UNION {[1 .. n -> Roles] : n \in 0 .. MCMaxShaders}

\* lists whose shaders come in the order GetOffsetImpl assumes
RoleOrderedLists == {l \in AllLists : RoleOrdered(l)}

MCHandleSize == 32
====
