---------------------------- MODULE MCHostMounts ----------------------------
(* HostMounts on kernels around the versions the code asks for. *)
EXTENDS HostMounts

AroundTheGates == {<<4, 19>>, <<5, 11>>, <<5, 12>>, <<5, 19>>, <<6, 3>>}
=============================================================================
