---------------------------- MODULE MCGpuCompute ----------------------------
(***************************************************************************)
(* Every command on machines with up to two devices: two good ones, and    *)
(* some with one thing wrong each.                                         *)
(***************************************************************************)
EXTENDS GpuCompute

V3D == [id |-> 2, broadcom |-> TRUE, integrated |-> TRUE, compute |-> TRUE, v3d |-> TRUE,
        llvmpipe |-> FALSE]
NewerV3D == [V3D EXCEPT !.id = 1]
GraphicsOnly == [V3D EXCEPT !.compute = FALSE]
OtherVendor == [V3D EXCEPT !.broadcom = FALSE]
Software == [V3D EXCEPT !.v3d = FALSE, !.llvmpipe = TRUE, !.integrated = FALSE]

Devices ==
    {<<>>, <<V3D>>, <<GraphicsOnly>>, <<Software>>, <<V3D, NewerV3D>>,
     <<GraphicsOnly, V3D>>, <<OtherVendor, Software>>}

MCMachine ==
    [access : BOOLEAN, loader : {"none", "probe", "full"}, devices : Devices]

MCJob ==
    [kind : {"vector", "mixed", "other", "proof", "probe"}, backend : {"cpu", "auto", "vulkan"},
     shots : {FALSE}]
    \cup [kind : {"vector"}, backend : {"cpu", "auto", "vulkan"}, shots : {TRUE}]
=============================================================================
