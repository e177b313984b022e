----------------------------- MODULE GpuCompute -----------------------------
(***************************************************************************)
(* Vector programs on the GPU: the probe (src/gpu_adapter.c), the choice   *)
(* of a back end (src/gpu_routing.c) and the computation on Vulkan         *)
(* (src/gpu_compute.c), for one command: run or exec of a program, gpu     *)
(* compute-proof or gpu probe.                                             *)
(*                                                                         *)
(* The machine may change between any two looks at it, every Vulkan call   *)
(* may fail, and the GPU works on its own between submission and           *)
(* completion.  Words are not modelled: the output is still the poison the *)
(* code fills it with, right, or wrong.                                    *)
(***************************************************************************)
EXTENDS Naturals, SequencesExt

CONSTANTS
    Machine,    \* what a command may find, as records (see MachineOK)
    Job         \* commands, as records (see JobOK)

DeviceOK(d) ==
    /\ d.id \in Nat                 \* device_id, and the name's place among equal ones
    /\ d.broadcom \in BOOLEAN /\ d.integrated \in BOOLEAN /\ d.compute \in BOOLEAN
    /\ d.v3d \in BOOLEAN            \* the name starts with "V3D "
    /\ d.llvmpipe \in BOOLEAN       \* ... or contains "llvmpipe"

MachineOK(m) ==
    /\ m.access \in BOOLEAN         \* to the render node, to read and write
    /\ m.loader \in {"none", "probe", "full"}   \* libvulkan, with the symbols the
                                                \* probe needs or all of them
    /\ m.devices \in Seq(Range(m.devices)) /\ \A d \in Range(m.devices) : DeviceOK(d)

JobOK(j) ==
    /\ j.kind \in {"vector", "mixed", "other", "proof", "probe"}  \* of run and exec, the
                                    \* program: with a vector operation alone, among
                                    \* others, or without; or the gpu command
    /\ j.shots \in BOOLEAN          \* --shots or --seed is given
    /\ j.backend \in {"cpu", "auto", "vulkan"}

ASSUME GpuAssumption ==
    /\ \A m \in Machine : MachineOK(m)
    /\ \A j \in Job : JobOK(j)

VARIABLES
    machine,    \* devices in the order Vulkan enumerates them
    job,
    pc, at,     \* where the command is; its place in Ladder or ReleaseOrder
    caller,     \* who probes: "routed", "proving" or "deciding"
    steady,     \* history: the machine is what it was when the last probe began
    render,     \* render_access of the probe
    probeOK,    \* its status
    candidate,  \* hardware_candidate: none, or a sequence of one device
    route,      \* QNGpuQvmRoute
    proof,      \* QNGpuComputeProof; device is a sequence like candidate
    live,       \* what was created and not released
    gpu,        \* "idle", "running", "done" or "lost"
    gaveUp,     \* the wait failed and the GPU may still be running
    output,     \* the third of the mapped buffer that the shader writes
    outcome

probing == <<caller, steady, render, probeOK, candidate>>
objects == <<live, gpu, gaveUp, output>>
vars == <<machine, job, pc, at, probing, route, proof, objects, outcome>>

Objects ==
    {"loader", "instance", "device", "buffer", "memory", "mapping", "setLayout",
     "pipelineLayout", "shader", "pipeline", "descriptorPool", "descriptorSet",
     "commandPool", "commandBuffer"}

Device == UNION {Range(m.devices) : m \in Machine}
OneDevice == {<<>>} \cup {<<d>> : d \in Device}
Backend == {"none", "cpu", "vulkan"}

CommandOK ==
    /\ machine \in Machine /\ job \in Job
    /\ pc \in {"route", "access", "probe", "routed", "proving", "deciding", "vm", "proof", "open",
               "load", "climb", "submit", "wait", "compare", "release", "checked", "end"}
    /\ at \in 0..20
    /\ outcome \in {"none", "ok", "refused", "unavailable", "vulkan", "mismatch", "evidence"}

ProbeOK ==
    /\ caller \in {"none", "routed", "proving", "deciding"}
    /\ steady \in BOOLEAN /\ render \in BOOLEAN /\ probeOK \in BOOLEAN
    /\ candidate \in OneDevice

EvidenceOK ==
    /\ route \in [backend : Backend, fallback : BOOLEAN]
    /\ proof \in [backend : Backend, fallback : BOOLEAN, device : OneDevice,
                  attempted : BOOLEAN, completed : BOOLEAN, match : BOOLEAN]

ObjectsOK ==
    /\ live \subseteq Objects
    /\ gpu \in {"idle", "running", "done", "lost"} /\ gaveUp \in BOOLEAN
    /\ output \in {"unset", "poison", "right", "wrong"}

TypeOK == CommandOK /\ ProbeOK /\ EvidenceOK /\ ObjectsOK

-----------------------------------------------------------------------------
(* Which devices are accepted: by the probe, and by the computation *)

\* Mutant of IsSupported: the queues are left to the computation.
IsSupportedAnyQueue(d, access) ==
    d.broadcom /\ d.integrated /\ d.v3d /\ ~d.llvmpipe /\ access

\* qn_gpu_candidate_is_supported
IsSupported(d, access) ==
    d.broadcom /\ d.integrated /\ d.v3d /\ ~d.llvmpipe /\ d.compute /\ access

\* Of several the probe names the one with the least id, the first of equals,
Better(d, best) == d.id < best.id

Best(devices, access) ==
    LET good == {i \in DOMAIN devices : IsSupported(devices[i], access)}
        leads(i) == \A k \in good : /\ ~Better(devices[k], devices[i])
                                    /\ k < i => Better(devices[i], devices[k])
    IN  IF good = {} THEN <<>> ELSE <<devices[CHOOSE i \in good : leads(i)]>>

\* and qn_gpu_select_device takes the first that is enumerated.
Selected(devices) ==
    LET fits(d) == d.broadcom /\ d.integrated /\ d.v3d /\ ~d.llvmpipe /\ d.compute
        i == SelectInSeq(devices, fits)
    IN  IF i = 0 THEN <<>> ELSE <<devices[i]>>

-----------------------------------------------------------------------------

NoRoute == [backend |-> "none", fallback |-> FALSE]
NoProof == [backend |-> "none", fallback |-> FALSE, device |-> <<>>,
            attempted |-> FALSE, completed |-> FALSE, match |-> FALSE]

\* The result is computed here, and compared with itself.
CpuProof == [NoProof EXCEPT !.backend = "cpu", !.fallback = TRUE, !.match = TRUE]

Init ==
    /\ machine \in Machine /\ job \in Job
    /\ pc = IF job.kind = "proof" THEN "proof" ELSE IF job.kind = "probe" THEN "access" ELSE "route"
    /\ at = 0
    /\ caller = IF job.kind = "probe" THEN "deciding" ELSE "none"
    /\ steady = TRUE /\ render = FALSE /\ probeOK = FALSE /\ candidate = <<>>
    /\ route = NoRoute /\ proof = NoProof
    /\ live = {} /\ gpu = "idle" /\ gaveUp = FALSE /\ output = "unset"
    /\ outcome = "none"

GoTo(l) == pc' = l /\ UNCHANGED outcome
Finish(why) == pc' = "end" /\ outcome' = why

-----------------------------------------------------------------------------
(* The probe, and what is decided on it *)

\* qn_gpu_probe looks at the render node, then at the devices.
ProbeAccess ==
    /\ pc = "access"
    /\ GoTo("probe")
    /\ render' = machine.access /\ steady' = TRUE
    /\ UNCHANGED <<machine, job, at, caller, probeOK, candidate, route, proof, objects>>

\* Without Vulkan, or if a call of it fails, there is no candidate; without
\* memory the probe fails.
Probe ==
    /\ pc = "probe"
    /\ GoTo(caller)
    /\ \/ candidate' = <<>> /\ probeOK' \in BOOLEAN
       \/ /\ machine.loader # "none"
          /\ candidate' = Best(machine.devices, render)
          /\ probeOK' = TRUE
    /\ UNCHANGED <<machine, job, at, caller, steady, render, route, proof, objects>>

Hardware == probeOK /\ candidate # <<>>

\* gpu probe: nothing is computed, and --backend vulkan is refused.
Decide ==
    /\ pc = "deciding"
    /\ IF probeOK /\ job.backend # "vulkan" THEN Finish("ok") ELSE Finish("refused")
    /\ UNCHANGED <<machine, job, at, probing, route, proof, objects>>

\* qn_gpu_route_qvm for other programs: the CPU VM, or none.
RouteOther ==
    /\ pc = "route" /\ job.kind \in {"other", "mixed"}
    /\ \/ /\ job.backend = "vulkan" \/ job.kind = "mixed"
          /\ Finish("refused")
          /\ UNCHANGED route
       \/ /\ job.backend # "vulkan" /\ job.kind = "other"
          /\ Finish("ok")
          /\ route' = [backend |-> "cpu", fallback |-> job.backend = "auto"]
    /\ UNCHANGED <<machine, job, at, probing, proof, objects>>

RouteCpu ==
    /\ pc = "route" /\ job.kind = "vector" /\ job.backend = "cpu"
    /\ GoTo("vm")
    /\ route' = [backend |-> "cpu", fallback |-> FALSE]
    /\ UNCHANGED <<machine, job, at, probing, proof, objects>>

RouteProbes ==
    /\ pc = "route" /\ job.kind = "vector" /\ job.backend # "cpu"
    /\ GoTo("access")
    /\ caller' = "routed"
    /\ UNCHANGED <<machine, job, at, steady, render, probeOK, candidate, route, proof, objects>>

\* A probe that failed counts as no hardware.
Route ==
    /\ pc = "routed"
    /\ \/ /\ Hardware
          /\ GoTo("vm")
          /\ route' = [backend |-> "vulkan", fallback |-> FALSE]
       \/ /\ ~Hardware /\ job.backend = "auto"
          /\ GoTo("vm")
          /\ route' = [backend |-> "cpu", fallback |-> TRUE]
       \/ /\ ~Hardware /\ job.backend = "vulkan"
          /\ Finish("refused")
          /\ UNCHANGED route
    /\ UNCHANGED <<machine, job, at, probing, proof, objects>>

\* qn_vm_run_bounded_compute asks for the back end of the route.
RunVm ==
    /\ pc = "vm"
    /\ IF job.shots THEN Finish("refused") ELSE GoTo("proof")
    /\ UNCHANGED <<machine, job, at, probing, route, proof, objects>>

Asked == IF job.kind = "vector" THEN route.backend ELSE job.backend

ProveOnCpu ==
    /\ pc = "proof" /\ Asked = "cpu"
    /\ GoTo("checked")
    /\ proof' = CpuProof
    /\ UNCHANGED <<machine, job, at, probing, route, objects>>

ProofProbes ==
    /\ pc = "proof" /\ Asked # "cpu"
    /\ GoTo("access")
    /\ caller' = "proving"
    /\ UNCHANGED <<machine, job, at, steady, render, probeOK, candidate, route, proof, objects>>

Prove ==
    /\ pc = "proving"
    /\ \/ /\ Hardware
          /\ GoTo("open")
          /\ proof' = [NoProof EXCEPT !.backend = "vulkan"]
       \/ /\ probeOK /\ ~Hardware /\ Asked = "auto"
          /\ GoTo("checked")
          /\ proof' = CpuProof
       \/ /\ ~probeOK \/ (~Hardware /\ Asked = "vulkan")
          /\ Finish("refused")
          /\ UNCHANGED proof
    /\ UNCHANGED <<machine, job, at, probing, route, objects>>

-----------------------------------------------------------------------------
(* qn_gpu_run_vulkan *)

\* The calls, one after the other: most create the object of that name.
DeviceCalls == <<"instance", "select", "device", "queue">>
BufferCalls == <<"buffer", "memoryType", "memory", "bind", "mapping">>
PipelineCalls == <<"setLayout", "pipelineLayout", "shader", "pipeline">>
CommandCalls ==
    <<"descriptorPool", "descriptorSet", "commandPool", "commandBuffer", "begin", "end">>

Ladder == DeviceCalls \o BufferCalls \o PipelineCalls \o CommandCalls

\* Mutant of ReleaseOrder: the device goes before its memory.
ReleaseOrderDeviceFirst ==
    <<{"mapping"}, {"commandPool", "commandBuffer"}, {"descriptorPool", "descriptorSet"},
      {"pipeline"}, {"shader"}, {"pipelineLayout"}, {"setLayout"}, {"buffer"}, {"device"},
      {"memory"}, {"instance"}, {"loader"}>>

\* qn_gpu_compute_cleanup and qn_gpu_compute_api_unload; what is allocated
\* from a pool goes with it.
ReleaseOrder ==
    <<{"mapping"}, {"commandPool", "commandBuffer"}, {"descriptorPool", "descriptorSet"},
      {"pipeline"}, {"shader"}, {"pipelineLayout"}, {"setLayout"}, {"buffer"}, {"memory"},
      {"device"}, {"instance"}, {"loader"}>>

\* goto cleanup
CleanUp(why) == pc' = "release" /\ at' = 1 /\ outcome' = why

Open ==
    /\ pc = "open"
    /\ IF machine.access THEN GoTo("load") ELSE Finish("unavailable")
    /\ UNCHANGED <<machine, job, at, probing, route, proof, objects>>

\* A loader without all the symbols is closed again.
Load ==
    /\ pc = "load"
    /\ \/ /\ machine.loader = "full"
          /\ GoTo("climb") /\ at' = 1
          /\ live' = {"loader"}
       \/ /\ machine.loader # "full"
          /\ Finish("unavailable") /\ UNCHANGED <<at, live>>
    /\ UNCHANGED <<machine, job, probing, route, proof, gpu, gaveUp, output>>

\* The mapped buffer is filled as soon as there is one.
Call ==
    /\ pc = "climb" /\ Ladder[at] # "select"
    /\ live' = live \cup ({Ladder[at]} \cap Objects)
    /\ output' = IF Ladder[at] = "mapping" THEN "poison" ELSE output
    /\ GoTo(IF at = Len(Ladder) THEN "submit" ELSE "climb")
    /\ at' = at + 1
    /\ UNCHANGED <<machine, job, probing, route, proof, gpu, gaveUp>>

\* An error, a null handle, or no suitable memory type.
CallFails ==
    /\ pc = "climb"
    /\ CleanUp("vulkan")
    /\ UNCHANGED <<machine, job, probing, route, proof, objects>>

Select ==
    /\ pc = "climb" /\ Ladder[at] = "select"
    /\ proof' = [proof EXCEPT !.device = Selected(machine.devices)]
    /\ IF Selected(machine.devices) = <<>> THEN CleanUp("unavailable")
       ELSE GoTo("climb") /\ at' = at + 1
    /\ UNCHANGED <<machine, job, probing, route, objects>>

Submit ==
    /\ pc = "submit"
    /\ proof' = [proof EXCEPT !.attempted = TRUE]
    /\ \/ GoTo("wait") /\ gpu' = "running" /\ UNCHANGED at
       \/ CleanUp("vulkan") /\ UNCHANGED gpu
    /\ UNCHANGED <<machine, job, probing, route, live, gaveUp, output>>

\* vkQueueWaitIdle has no timeout; it fails if the device is lost, or if
\* memory is short.
Wait ==
    /\ pc = "wait"
    /\ \/ /\ gpu = "done"
          /\ proof' = [proof EXCEPT !.completed = TRUE]
          /\ GoTo("compare") /\ UNCHANGED <<at, gaveUp>>
       \/ /\ CleanUp("vulkan")
          /\ gaveUp' = (gpu = "running")
          /\ UNCHANGED proof
    /\ UNCHANGED <<machine, job, probing, route, live, gpu, output>>

\* Mutant of Match: only output that was never written is refused.
MatchIfWritten(seen) == seen # "poison"

\* memcmp with the reference
Match(seen) == seen = "right"

\* No barrier makes the shader's writes visible to the host, so it may still
\* see the poison.
CompareOutput ==
    /\ pc = "compare"
    /\ \E seen \in {output, "poison"} :
          /\ proof' = [proof EXCEPT !.match = Match(seen)]
          /\ CleanUp(IF Match(seen) THEN "none" ELSE "mismatch")
    /\ UNCHANGED <<machine, job, probing, route, objects>>

Release ==
    /\ pc = "release"
    /\ live' = live \ ReleaseOrder[at]
    /\ at' = at + 1
    /\ GoTo(IF at < Len(ReleaseOrder) THEN "release"
            ELSE IF outcome = "none" THEN "checked" ELSE "end")
    /\ UNCHANGED <<machine, job, probing, route, proof, gpu, gaveUp, output>>

\* What qn_vm_run_bounded_compute still requires of the proof.
Check ==
    /\ pc = "checked"
    /\ IF job.kind = "vector" => proof.backend = route.backend /\ proof.match
       THEN Finish("ok") ELSE Finish("evidence")
    /\ UNCHANGED <<machine, job, at, probing, route, proof, objects>>

-----------------------------------------------------------------------------
(* The environment *)

MachineChanges ==
    /\ machine' \in Machine /\ steady' = (machine' = machine /\ steady)
    /\ UNCHANGED <<job, pc, at, caller, render, probeOK, candidate, route, proof, objects, outcome>>

GpuFinishes ==
    /\ gpu = "running" /\ gpu' = "done"
    /\ output' \in {"right", "wrong"}
    /\ UNCHANGED <<machine, job, pc, at, probing, route, proof, live, gaveUp, outcome>>

GpuLost ==
    /\ gpu = "running" /\ gpu' = "lost"
    /\ output' \in {output, "right", "wrong"}
    /\ UNCHANGED <<machine, job, pc, at, probing, route, proof, live, gaveUp, outcome>>

Command ==
    \/ ProbeAccess \/ Probe \/ Decide
    \/ RouteOther \/ RouteCpu \/ RouteProbes \/ Route \/ RunVm
    \/ ProveOnCpu \/ ProofProbes \/ Prove
    \/ Open \/ Load \/ Call \/ CallFails \/ Select
    \/ Submit \/ Wait \/ CompareOutput \/ Release \/ Check

Next == Command \/ MachineChanges \/ GpuFinishes \/ GpuLost

Spec == Init /\ [][Next]_vars

-----------------------------------------------------------------------------
(* Properties *)

\* What must outlive an object, and what a submitted computation uses.
Parent(o) ==
    IF o = "loader" THEN {}
    ELSE IF o = "instance" THEN {"loader"}
    ELSE IF o = "device" THEN {"instance"}
    ELSE IF o = "mapping" THEN {"memory"}
    ELSE IF o = "descriptorSet" THEN {"descriptorPool"}
    ELSE IF o = "commandBuffer" THEN {"commandPool"}
    ELSE {"device"}

InUse == {"loader", "instance", "device", "buffer", "memory", "pipeline", "descriptorSet",
          "commandBuffer"}

\* Whichever call fails, everything created is released before the command
\* ends, nothing before what was made from it, and nothing the GPU still uses
\* (but when the wait itself gave up).
ReleasedInOrder ==
    /\ \A o \in live : Parent(o) \subseteq live
    /\ gpu = "running" /\ ~gaveUp => InUse \subseteq live
    /\ pc = "end" => live = {}

\* A command that succeeds tells the truth about where it computed.  Vulkan:
\* a supported device finished and wrote the right output.  CPU: it was asked
\* for, or left open and no probe found hardware; no failure of the GPU turns
\* into a result of the CPU.
EvidenceIsTrue ==
    outcome = "ok" =>
        LET told == IF job.kind = "proof" THEN proof ELSE route
        IN  /\ told.backend = "vulkan" =>
                 /\ gpu = "done" /\ output = "right" /\ proof.attempted /\ proof.completed
                 /\ IsSupported(proof.device[1], TRUE)
            /\ told.backend = "cpu" =>
                 /\ job.backend # "vulkan" /\ gpu = "idle" /\ ~proof.attempted
                 /\ job.backend = "auto" => told.fallback /\ ~Hardware
            /\ job.kind = "vector" => proof.backend = route.backend /\ proof.match

\* What the probe accepts, the computation finds: unless the machine changed
\* in between, no command fails for want of a device, of access or of the
\* loader; except that the probe needs fewer symbols of the loader.
ProbeForesees ==
    outcome = "unavailable" => ~steady \/ machine.loader = "probe"
=============================================================================
