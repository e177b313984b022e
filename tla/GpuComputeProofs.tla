-------------------------- MODULE GpuComputeProofs --------------------------
(***************************************************************************)
(* Proofs about GpuCompute, for every set of machines and of commands: its *)
(* type invariant, that what was created is released in order, that a      *)
(* successful command tells the truth about where it computed, and that    *)
(* the computation finds what the probe accepted.                          *)
(***************************************************************************)
EXTENDS GpuCompute, TLAPS, WellFoundedInduction

\* Where nothing was asked of Vulkan yet, and where qn_gpu_run_vulkan is.
Deciding == {"route", "access", "probe", "routed", "proving", "deciding", "vm", "proof"}
Computing == {"open", "load", "climb", "submit", "wait", "compare", "release"}

\* What is live while objects are created, while they are used, while they
\* are released, and otherwise.
LiveInv ==
    /\ \A o \in live : Parent(o) \subseteq live
    /\ pc = "climb" =>
           /\ at \in 1..Len(Ladder) /\ "loader" \in live
           /\ \A i \in 1..(at - 1) : Ladder[i] \in Objects => Ladder[i] \in live
    /\ pc \in {"submit", "wait", "compare"} => live = Objects
    /\ pc = "release" =>
           /\ at \in 1..Len(ReleaseOrder)
           /\ \A i \in 1..(at - 1) : live \cap ReleaseOrder[i] = {}
    /\ pc \in Deciding \cup {"open", "load", "checked", "end"} => live = {}
    /\ gpu = "running" /\ ~gaveUp => pc = "wait"

\* What is decided for whom, and what a decision rests on: a choice of the
\* CPU is never followed by another probe.
RouteInv ==
    /\ pc = "route" => route = NoRoute
    /\ pc \in Deciding => proof = NoProof
    /\ outcome # "none" => pc \in {"release", "end"}
    /\ pc \in {"access", "probe"} => caller # "none"
    /\ job.kind \in {"other", "mixed"} =>
           /\ pc \in {"route", "end"} /\ ~probeOK /\ proof = NoProof
           /\ route.backend = "cpu" =>
                  /\ job.backend # "vulkan"
                  /\ job.backend = "auto" => route.fallback
           /\ route.backend # "vulkan"
    /\ job.kind = "probe" =>
           /\ pc \in {"access", "probe", "deciding", "end"}
           /\ caller = "deciding" /\ route = NoRoute /\ proof = NoProof
    /\ job.kind = "proof" => pc \notin {"route", "routed", "vm"} /\ route = NoRoute
    /\ pc \in {"routed", "proving", "deciding"} => caller = pc
    /\ caller = "routed" /\ pc \in {"access", "probe", "routed"} =>
           job.kind = "vector" /\ job.backend # "cpu" /\ route = NoRoute
    /\ caller = "proving" /\ pc \in {"access", "probe", "proving"} =>
           job.kind \in {"vector", "proof"} /\ Asked \in {"auto", "vulkan"}
    /\ caller = "deciding" => job.kind = "probe"
    /\ job.kind = "vector" /\ pc \in {"vm", "proof", "proving"} \cup Computing \cup {"checked"} =>
           route.backend # "none"
    /\ job.kind = "vector" /\ route.backend = "cpu" =>
           /\ pc \in {"vm", "proof", "checked", "end"} /\ proof.backend # "vulkan"
           /\ job.backend # "vulkan"
           /\ job.backend = "auto" => route.fallback /\ ~Hardware
    /\ proof.backend = "cpu" =>
           /\ proof = CpuProof /\ pc \in {"checked", "end"}
           /\ Asked # "vulkan" /\ (Asked = "auto" => ~Hardware)

\* How far the evidence of a computation on Vulkan has come.
ProofInv ==
    /\ pc \in Computing => proof.backend = "vulkan"
    /\ proof.backend # "vulkan" => ~proof.attempted /\ gpu = "idle"
    /\ \A d \in Device : proof.device = <<d>> => IsSupported(d, TRUE)
    /\ pc = "climb" /\ at > 2 => proof.device # <<>>
    /\ pc \in {"submit", "wait", "compare"} => proof.device # <<>>
    /\ pc \in {"wait", "compare"} => proof.attempted
    /\ pc = "compare" => gpu = "done" /\ proof.completed
    /\ pc \in Computing \ {"release"} => outcome = "none"
    /\ proof.backend = "vulkan" /\ proof.match =>
           /\ pc \in {"release", "checked", "end"}
           /\ gpu = "done" /\ output = "right" /\ proof.attempted /\ proof.completed
           /\ proof.device # <<>>
    /\ proof.backend = "vulkan" /\ pc \in {"release", "checked"} /\ outcome = "none" => proof.match
    /\ pc = "checked" => proof.match
    /\ outcome = "ok" /\ job.kind \in {"vector", "proof"} =>
           /\ pc = "end" /\ proof.match
           /\ job.kind = "vector" => proof.backend = route.backend

\* What the probe saw, as long as the machine is what it was.
SteadyInv ==
    /\ steady /\ pc = "probe" => render = machine.access
    /\ steady /\ pc # "probe" /\ candidate # <<>> =>
           /\ machine.access /\ machine.loader # "none"
           /\ Selected(machine.devices) # <<>>
    /\ pc \in Computing => candidate # <<>>
    /\ outcome = "unavailable" => ~steady \/ machine.loader = "probe"

IInv == TypeOK /\ LiveInv /\ RouteInv /\ ProofInv /\ SteadyInv

-----------------------------------------------------------------------------
(* The calls and the releases, one by one *)

\* The four parts of the ladder, in a row.
LEMMA LadderCalls ==
  /\ Len(Ladder) = 19
  /\ Ladder[1] = "instance" /\ Ladder[2] = "select" /\ Ladder[3] = "device"
  /\ Ladder[4] = "queue" /\ Ladder[5] = "buffer" /\ Ladder[6] = "memoryType"
  /\ Ladder[7] = "memory" /\ Ladder[8] = "bind" /\ Ladder[9] = "mapping"
  /\ Ladder[10] = "setLayout" /\ Ladder[11] = "pipelineLayout"
  /\ Ladder[12] = "shader" /\ Ladder[13] = "pipeline"
  /\ Ladder[14] = "descriptorPool" /\ Ladder[15] = "descriptorSet"
  /\ Ladder[16] = "commandPool" /\ Ladder[17] = "commandBuffer"
  /\ Ladder[18] = "begin" /\ Ladder[19] = "end"
  BY DEF Ladder, DeviceCalls, BufferCalls, PipelineCalls, CommandCalls

\* Nothing is created before what it is made from.
LEMMA LadderUpwards ==
  ASSUME NEW n \in 1..19, Ladder[n] \in Objects, NEW o \in Parent(Ladder[n])
  PROVE  o = "loader" \/ (o \in Objects /\ \E i \in 1..(n - 1) : Ladder[i] = o)
  BY LadderCalls DEF Parent, Objects

\* Every object but the loader is made by a call.
LEMMA LadderMakesAll ==
  ASSUME NEW o \in Objects, o # "loader"
  PROVE  \E i \in 1..19 : Ladder[i] = o
  BY LadderCalls DEF Objects

\* What is released has been emptied of what was made from it.
LEMMA ReleaseDownwards ==
  ASSUME NEW n \in 1..12, NEW o \in Objects, NEW q \in Parent(o), q \in ReleaseOrder[n]
  PROVE  \E i \in 1..n : o \in ReleaseOrder[i]
  BY DEF ReleaseOrder, Parent, Objects

\* Everything is released.
LEMMA ReleaseAll ==
  /\ Len(ReleaseOrder) = 12
  /\ \A o \in Objects : \E i \in 1..12 : o \in ReleaseOrder[i]
  BY DEF ReleaseOrder, Objects

\* A nonempty set of naturals has a least element.
LEMMA LeastNatural ==
  ASSUME NEW S \in SUBSET Nat, S # {}
  PROVE  \E m \in S : \A n \in S : m <= n
  <1>. DEFINE R == {ss \in Nat \X Nat : ss[1] < ss[2]}
  <1>1. IsWellFoundedOn(R, Nat)
    BY NatLessThanWellFounded DEF OpToRel
  <1>2. PICK m \in S : \A n \in S : ~ (<<n, m>> \in R)
    <2>. HIDE DEF R
    <2>. QED  BY <1>1, WFMin
  <1>3. ASSUME NEW n \in S PROVE m <= n
    <2>1. <<n, m>> \in Nat \X Nat
      OBVIOUS
    <2>2. ~ (n < m)
      BY <1>2, <2>1
    <2>. QED  BY <2>2
  <1>. QED  BY <1>3

-----------------------------------------------------------------------------
(* The choice of a device *)

\* What the computation takes is a device that fits; if there is one, it
\* takes one.
LEMMA SelectedFits ==
  ASSUME NEW m \in Machine
  PROVE  /\ Selected(m.devices) \in OneDevice
         /\ \A d \in Device : Selected(m.devices) = <<d>> => IsSupported(d, TRUE)
         /\ Selected(m.devices) = <<>> =>
                \A i \in DOMAIN m.devices : ~IsSupported(m.devices[i], TRUE)
  <1>. DEFINE ds == m.devices
              I == {i \in 1..Len(ds) : /\ ds[i].broadcom /\ ds[i].integrated /\ ds[i].v3d
                                       /\ ~ds[i].llvmpipe /\ ds[i].compute}
              i == IF I # {} THEN Min(I) ELSE 0
  <1>1. ds \in Seq(Range(ds)) /\ DOMAIN ds = 1..Len(ds) /\ Len(ds) \in Nat
    BY GpuAssumption DEF MachineOK
  <1>2. Selected(ds) = IF i = 0 THEN <<>> ELSE <<ds[i]>>
    BY DEF Selected, SelectInSeq
  <1>3. I # {} => Min(I) \in I
    <2>. SUFFICES ASSUME I # {} PROVE Min(I) \in I
      OBVIOUS
    <2>1. \E x \in I : \A y \in I : x <= y
      <3>1. I \in SUBSET Nat
        BY <1>1
      <3>. HIDE DEF I
      <3>. QED  BY <3>1, LeastNatural
    <2>. HIDE DEF I
    <2>. QED  BY <2>1 DEF Min
  <1>4. i # 0 => ds[i] \in Device /\ IsSupported(ds[i], TRUE)
    <2>1. SUFFICES ASSUME i # 0 PROVE ds[i] \in Device /\ IsSupported(ds[i], TRUE)
      OBVIOUS
    <2>2. i \in I
      BY <2>1, <1>3
    <2>. HIDE DEF i
    <2>3. i \in DOMAIN ds /\ IsSupported(ds[i], TRUE)
      BY <2>2, <1>1 DEF IsSupported
    <2>4. ds[i] \in Range(ds) /\ ds = m.devices
      BY <2>3 DEF Range
    <2>. HIDE DEF I, ds
    <2>. QED  BY <2>3, <2>4 DEF Device
  <1>5. i = 0 => \A k \in DOMAIN ds : ~IsSupported(ds[k], TRUE)
    BY <1>1, <1>3 DEF IsSupported
  <1>6. DOMAIN ds = DOMAIN m.devices /\ ds = m.devices
    OBVIOUS
  <1>. HIDE DEF i, ds, I
  <1>7. CASE i = 0
    <2>1. Selected(ds) = <<>> /\ \A d \in Device : <<>> # <<d>>
      BY <1>2, <1>7
    <2>. QED  BY <1>5, <1>6, <1>7, <2>1 DEF OneDevice
  <1>8. CASE i # 0
    <2>1. Selected(ds) = <<ds[i]>>
      BY <1>2, <1>8
    <2>2. Selected(ds) # <<>> /\ \A d \in Device : Selected(ds) = <<d>> => d = ds[i]
      BY <2>1
    <2>3. Selected(ds) \in OneDevice
      BY <1>4, <1>8, <2>1 DEF OneDevice
    <2>4. \A d \in Device : Selected(ds) = <<d>> => IsSupported(d, TRUE)
      BY <1>4, <1>8, <2>2
    <2>5. m.devices = ds
      BY DEF ds
    <2>. HIDE DEF ds
    <2>. QED  BY <2>2, <2>3, <2>4, <2>5
  <1>. QED  BY <1>7, <1>8

\* What the probe names is a device that fits.
LEMMA BestFits ==
  ASSUME NEW m \in Machine, NEW access \in BOOLEAN
  PROVE  /\ Best(m.devices, access) \in OneDevice
         /\ Best(m.devices, access) # <<>> =>
                access /\ \E i \in DOMAIN m.devices : IsSupported(m.devices[i], TRUE)
  <1>. DEFINE ds == m.devices
              good == {i \in DOMAIN ds : IsSupported(ds[i], access)}
              leads(i) == \A k \in good : /\ ~Better(ds[k], ds[i])
                                          /\ k < i => Better(ds[i], ds[k])
  <1>1. /\ DOMAIN ds = 1..Len(ds) /\ Len(ds) \in Nat
        /\ \A i \in DOMAIN ds : ds[i] \in Device /\ ds[i].id \in Nat
    <2>1. ds \in Seq(Range(ds)) /\ \A d \in Range(ds) : d.id \in Nat
      BY GpuAssumption DEF MachineOK, DeviceOK
    <2>2. DOMAIN ds = 1..Len(ds) /\ Len(ds) \in Nat
      BY <2>1
    <2>3. \A i \in DOMAIN ds : ds[i] \in Range(ds)
      BY DEF Range
    <2>4. \A d \in Range(ds) : d \in Device
      BY DEF Device
    <2>. QED  BY <2>1, <2>2, <2>3, <2>4
  <1>2. ASSUME good # {} PROVE \E i \in good : leads(i)
    <2>. DEFINE ids == {ds[i].id : i \in good}
    <2>1. PICK least \in ids : \A n \in ids : least <= n
      <3>1. ids \in SUBSET Nat /\ ids # {}
        BY <1>1, <1>2
      <3>. HIDE DEF ids
      <3>. QED  BY <3>1, LeastNatural
    <2>. DEFINE firsts == {i \in good : ds[i].id = least}
    <2>2. PICK i \in firsts : \A k \in firsts : i <= k
      <3>1. firsts \in SUBSET Nat /\ firsts # {}
        BY <1>1, <2>1
      <3>. HIDE DEF firsts
      <3>. QED  BY <3>1, LeastNatural
    <2>3. ASSUME NEW k \in good
          PROVE  ~Better(ds[k], ds[i]) /\ (k < i => Better(ds[i], ds[k]))
      <3>1. least <= ds[k].id /\ ds[i].id = least /\ least \in Nat
        BY <1>1, <2>1
      <3>2. k < i => ds[k].id # least
        BY <1>1, <2>2
      <3>. QED  BY <1>1, <3>1, <3>2 DEF Better
    <2>. QED  BY <2>3
  <1>3. Best(ds, access) = IF good = {} THEN <<>> ELSE <<ds[CHOOSE i \in good : leads(i)]>>
    BY DEF Best
  <1>4. good # {} => (CHOOSE i \in good : leads(i)) \in good
    <2>. HIDE DEF good, leads
    <2>. QED  BY <1>2
  <1>. DEFINE lead == CHOOSE i \in good : leads(i)
  <1>5. good # {} => /\ lead \in DOMAIN ds /\ ds[lead] \in Device
                     /\ access /\ IsSupported(ds[lead], TRUE)
    <2>1. good # {} => lead \in good
      BY <1>4
    <2>. HIDE DEF lead
    <2>. QED  BY <1>1, <2>1 DEF IsSupported
  <1>. HIDE DEF lead, good, leads
  <1>. QED  BY <1>3, <1>5 DEF OneDevice, lead

-----------------------------------------------------------------------------
(* The inductive invariant *)

\* The reports a command begins with, and that of a computation on the CPU.
LEMMA Reports ==
  /\ NoRoute \in [backend : Backend, fallback : BOOLEAN]
  /\ NoProof \in [backend : Backend, fallback : BOOLEAN, device : OneDevice,
                  attempted : BOOLEAN, completed : BOOLEAN, match : BOOLEAN]
  /\ CpuProof \in [backend : Backend, fallback : BOOLEAN, device : OneDevice,
                   attempted : BOOLEAN, completed : BOOLEAN, match : BOOLEAN]
  /\ NoRoute.backend = "none"
  /\ NoProof.backend = "none" /\ ~NoProof.attempted /\ ~NoProof.match /\ NoProof.device = <<>>
  /\ CpuProof.backend = "cpu" /\ ~CpuProof.attempted /\ CpuProof.match /\ CpuProof.device = <<>>
  <1>1. /\ NoRoute \in [backend : Backend, fallback : BOOLEAN] /\ NoRoute.backend = "none"
        /\ NoProof.backend = "none" /\ ~NoProof.attempted /\ ~NoProof.match
        /\ NoProof.device = <<>>
    BY DEF NoRoute, NoProof, Backend
  <1>2. NoProof \in [backend : Backend, fallback : BOOLEAN, device : OneDevice,
                     attempted : BOOLEAN, completed : BOOLEAN, match : BOOLEAN]
    BY DEF NoProof, Backend, OneDevice
  <1>3. CpuProof = [backend |-> "cpu", fallback |-> TRUE, device |-> <<>>,
                    attempted |-> FALSE, completed |-> FALSE, match |-> TRUE]
    <2>1. NoProof = [backend |-> "none", fallback |-> FALSE, device |-> <<>>,
                     attempted |-> FALSE, completed |-> FALSE, match |-> FALSE]
      BY DEF NoProof
    <2>. HIDE DEF NoProof
    <2>2. CpuProof = [[[NoProof EXCEPT !.backend = "cpu"] EXCEPT !.fallback = TRUE]
                        EXCEPT !.match = TRUE]
      BY <2>1 DEF CpuProof
    <2>. QED  BY <2>1, <2>2
  <1>4. CpuProof \in [backend : Backend, fallback : BOOLEAN, device : OneDevice,
                      attempted : BOOLEAN, completed : BOOLEAN, match : BOOLEAN]
    BY <1>3 DEF Backend, OneDevice
  <1>. QED  BY <1>1, <1>2, <1>3, <1>4

\* Writing one field of a proof leaves the others.
LEMMA WriteProof ==
  ASSUME EvidenceOK
  PROVE  /\ \A o \in OneDevice :
              LET p == [proof EXCEPT !.device = o]
              IN  /\ p \in [backend : Backend, fallback : BOOLEAN, device : OneDevice,
                           attempted : BOOLEAN, completed : BOOLEAN, match : BOOLEAN]
                  /\ p.device = o /\ p.backend = proof.backend
                  /\ p.attempted = proof.attempted /\ p.completed = proof.completed
                  /\ p.match = proof.match
         /\ LET p == [proof EXCEPT !.attempted = TRUE]
            IN  /\ p \in [backend : Backend, fallback : BOOLEAN, device : OneDevice,
                         attempted : BOOLEAN, completed : BOOLEAN, match : BOOLEAN]
                /\ p.device = proof.device /\ p.backend = proof.backend
                /\ p.attempted /\ p.completed = proof.completed /\ p.match = proof.match
         /\ LET p == [proof EXCEPT !.completed = TRUE]
            IN  /\ p \in [backend : Backend, fallback : BOOLEAN, device : OneDevice,
                         attempted : BOOLEAN, completed : BOOLEAN, match : BOOLEAN]
                /\ p.device = proof.device /\ p.backend = proof.backend
                /\ p.attempted = proof.attempted /\ p.completed /\ p.match = proof.match
         /\ \A b \in BOOLEAN :
              LET p == [proof EXCEPT !.match = b]
              IN  /\ p \in [backend : Backend, fallback : BOOLEAN, device : OneDevice,
                           attempted : BOOLEAN, completed : BOOLEAN, match : BOOLEAN]
                  /\ p.device = proof.device /\ p.backend = proof.backend
                  /\ p.attempted = proof.attempted /\ p.completed = proof.completed
                  /\ p.match = b
  BY DEF EvidenceOK

\* No command has done anything yet.
LEMMA InitInv == ASSUME Init PROVE IInv
  <1>. USE DEF Init
  <1>1. TypeOK
    <2>1. CommandOK
      BY DEF CommandOK
    <2>2. ProbeOK
      BY DEF ProbeOK, OneDevice
    <2>3. EvidenceOK
      BY Reports DEF EvidenceOK
    <2>4. ObjectsOK
      BY DEF ObjectsOK
    <2>. QED  BY <2>1, <2>2, <2>3, <2>4 DEF TypeOK
  <1>2. LiveInv /\ RouteInv
    BY GpuAssumption, Reports DEF LiveInv, RouteInv, Deciding, Computing, JobOK
  <1>3. ProofInv /\ SteadyInv
    BY Reports DEF ProofInv, SteadyInv, Computing
  <1>. QED  BY <1>1, <1>2, <1>3 DEF IInv

\* The probe begins by looking at the render node: what it sees is what is there.
LEMMA ProbeAccessStep == ASSUME IInv, ProbeAccess PROVE IInv'
  <1>. USE DEF ProbeAccess, GoTo, Finish, CleanUp, probing, objects
  <1>1. CommandOK'
    BY DEF IInv, TypeOK, CommandOK
  <1>2. ProbeOK'
    BY GpuAssumption DEF IInv, TypeOK, CommandOK, ProbeOK, MachineOK
  <1>3. EvidenceOK'
    BY DEF IInv, TypeOK, EvidenceOK
  <1>4. ObjectsOK'
    BY DEF IInv, TypeOK, ObjectsOK
  <1>5. LiveInv'
    BY DEF IInv, LiveInv, Deciding
  <1>6. RouteInv'
    BY DEF IInv, RouteInv, Deciding, Computing, Asked, Hardware
  <1>7. ProofInv'
    BY DEF IInv, RouteInv, ProofInv, Computing
  <1>8. SteadyInv'
    <2>1. outcome # "unavailable"
      BY DEF IInv, RouteInv
    <2>. QED  BY <2>1 DEF Computing, SteadyInv
  <1>. QED  BY <1>1, <1>2, <1>3, <1>4, <1>5, <1>6, <1>7, <1>8 DEF IInv, TypeOK

\* A probe names a device only if the render node could be used and a device
\* fits, and then the computation would find one as well.
LEMMA ProbeStep == ASSUME IInv, Probe PROVE IInv'
  <1>. USE DEF Probe, GoTo, Finish, CleanUp, probing, objects
  <1>0. pc = "probe" /\ caller \in {"routed", "proving", "deciding"} /\ pc' = caller
    BY DEF IInv, TypeOK, ProbeOK, RouteInv
  <1>1. CommandOK'
    BY <1>0 DEF IInv, TypeOK, CommandOK
  <1>2. ProbeOK'
    <2>1. machine \in Machine /\ render \in BOOLEAN
      BY DEF IInv, TypeOK, CommandOK, ProbeOK
    <2>2. candidate' \in OneDevice
      BY <2>1, BestFits DEF OneDevice
    <2>. QED  BY <2>2 DEF IInv, TypeOK, ProbeOK
  <1>3. EvidenceOK'
    BY DEF IInv, TypeOK, EvidenceOK
  <1>4. ObjectsOK'
    BY DEF IInv, TypeOK, ObjectsOK
  <1>5. LiveInv'
    BY <1>0 DEF IInv, LiveInv, Deciding
  <1>6. RouteInv'
    <2>1. UNCHANGED <<job, caller, route, proof, outcome>> /\ Asked' = Asked
      BY DEF Asked
    <2>. HIDE DEF Probe
    <2>2. proof = NoProof /\ outcome = "none"
      BY <1>0 DEF IInv, RouteInv, Deciding
    <2>3. job.kind \notin {"other", "mixed"} /\ ~(job.kind = "vector" /\ route.backend = "cpu")
      BY <1>0 DEF IInv, RouteInv
    <2>4. /\ job.kind = "probe" => caller = "deciding" /\ route = NoRoute
          /\ job.kind = "proof" => caller # "routed" /\ route = NoRoute
          /\ caller = "routed" => job.kind = "vector" /\ job.backend # "cpu" /\ route = NoRoute
          /\ caller = "proving" =>
                 job.kind \in {"vector", "proof"} /\ Asked \in {"auto", "vulkan"}
          /\ caller = "deciding" => job.kind = "probe"
      BY <1>0 DEF IInv, RouteInv
    <2>5. job.kind = "vector" /\ caller = "proving" => route.backend # "none"
      BY <2>4 DEF Asked
    <2>. QED  BY <1>0, <2>1, <2>2, <2>3, <2>4, <2>5, Reports DEF RouteInv, Deciding, Computing
  <1>7. ProofInv'
    <2>1. UNCHANGED <<job, route, proof, gpu, output, outcome>>
      OBVIOUS
    <2>. HIDE DEF Probe
    <2>. QED  BY <1>0, <2>1 DEF IInv, ProofInv, Computing
  <1>8. SteadyInv'
    <2>1. machine \in Machine /\ render \in BOOLEAN
      BY DEF IInv, TypeOK, CommandOK, ProbeOK
    <2>2. outcome # "unavailable"
      BY <1>0 DEF IInv, RouteInv
    <2>3. ASSUME candidate' # <<>>, steady
          PROVE  machine.access /\ machine.loader # "none" /\ Selected(machine.devices) # <<>>
      <3>1. machine.loader # "none" /\ render
            /\ \E i \in DOMAIN machine.devices : IsSupported(machine.devices[i], TRUE)
        <4>. HIDE DEF Probe
        <4>1. \/ candidate' = <<>>
              \/ machine.loader # "none" /\ candidate' = Best(machine.devices, render)
          BY DEF Probe
        <4>2. machine.loader # "none" /\ candidate' = Best(machine.devices, render)
          BY <2>3, <4>1
        <4>3. Best(machine.devices, render) # <<>>
          BY <2>3, <4>2
        <4>. QED  BY <2>1, <4>2, <4>3, BestFits
      <3>2. render = machine.access
        BY <1>0, <2>3 DEF IInv, SteadyInv
      <3>. QED  BY <2>1, <3>1, <3>2, SelectedFits
    <2>4. UNCHANGED <<machine, steady, render, outcome>>
      OBVIOUS
    <2>. HIDE DEF Probe
    <2>. QED  BY <1>0, <2>2, <2>3, <2>4 DEF SteadyInv, Computing
  <1>. QED  BY <1>1, <1>2, <1>3, <1>4, <1>5, <1>6, <1>7, <1>8 DEF IInv, TypeOK

\* gpu probe ends without a back end.
LEMMA DecideStep == ASSUME IInv, Decide PROVE IInv'
  <1>. USE DEF Decide, GoTo, Finish, CleanUp, probing, objects
  <1>1. CommandOK'
    BY DEF IInv, TypeOK, CommandOK
  <1>2. ProbeOK'
    BY DEF IInv, TypeOK, ProbeOK
  <1>3. EvidenceOK'
    BY DEF IInv, TypeOK, EvidenceOK
  <1>4. ObjectsOK'
    BY DEF IInv, TypeOK, ObjectsOK
  <1>5. LiveInv'
    BY DEF IInv, LiveInv, Deciding
  <1>6. RouteInv'
    BY DEF IInv, RouteInv, Deciding, Computing, Asked, Hardware
  <1>7. ProofInv'
    BY DEF IInv, RouteInv, ProofInv, Computing
  <1>8. SteadyInv'
    BY DEF IInv, SteadyInv, Computing
  <1>. QED  BY <1>1, <1>2, <1>3, <1>4, <1>5, <1>6, <1>7, <1>8 DEF IInv, TypeOK

\* A program without vectors runs on the CPU VM, or is refused.
LEMMA RouteOtherStep == ASSUME IInv, RouteOther PROVE IInv'
  <1>. USE DEF RouteOther, GoTo, Finish, CleanUp, probing, objects
  <1>1. CommandOK'
    BY DEF IInv, TypeOK, CommandOK
  <1>2. ProbeOK'
    BY DEF IInv, TypeOK, ProbeOK
  <1>3. EvidenceOK'
    <2>0. UNCHANGED proof /\ (route' = route
             \/ route' = [backend |-> "cpu", fallback |-> (job.backend = "auto")])
      OBVIOUS
    <2>. HIDE DEF RouteOther
    <2>1. [backend |-> "cpu", fallback |-> (job.backend = "auto")]
             \in [backend : Backend, fallback : BOOLEAN]
      BY DEF Backend
    <2>. QED  BY <2>0, <2>1 DEF IInv, TypeOK, EvidenceOK
  <1>4. ObjectsOK'
    BY DEF IInv, TypeOK, ObjectsOK
  <1>5. LiveInv'
    BY DEF IInv, LiveInv, Deciding
  <1>6. RouteInv'
    <2>1. /\ job.kind \in {"other", "mixed"} /\ pc = "route" /\ pc' = "end"
          /\ UNCHANGED <<job, caller, probeOK, candidate, proof>>
          /\ \/ UNCHANGED route
             \/ /\ job.backend # "vulkan"
                /\ route' = [backend |-> "cpu", fallback |-> (job.backend = "auto")]
      OBVIOUS
    <2>. HIDE DEF RouteOther
    <2>2. proof = NoProof /\ ~probeOK /\ caller # "deciding" /\ route = NoRoute
      BY <2>1 DEF IInv, RouteInv
    <2>3. CASE UNCHANGED route
      BY <2>1, <2>2, <2>3, Reports DEF RouteInv, Deciding, Computing
    <2>4. CASE /\ job.backend # "vulkan"
               /\ route' = [backend |-> "cpu", fallback |-> (job.backend = "auto")]
      <3>1. route'.backend = "cpu" /\ (job.backend = "auto" => route'.fallback)
        BY <2>4
      <3>. QED  BY <2>1, <2>2, <2>4, <3>1, Reports DEF RouteInv, Deciding, Computing
    <2>. QED  BY <2>1, <2>3, <2>4
  <1>7. ProofInv'
    BY DEF IInv, RouteInv, ProofInv, Computing
  <1>8. SteadyInv'
    BY DEF IInv, SteadyInv, Computing
  <1>. QED  BY <1>1, <1>2, <1>3, <1>4, <1>5, <1>6, <1>7, <1>8 DEF IInv, TypeOK

\* --backend cpu asks no probe.
LEMMA RouteCpuStep == ASSUME IInv, RouteCpu PROVE IInv'
  <1>. USE DEF RouteCpu, GoTo, Finish, CleanUp, probing, objects
  <1>1. CommandOK'
    BY DEF IInv, TypeOK, CommandOK
  <1>2. ProbeOK'
    BY DEF IInv, TypeOK, ProbeOK
  <1>3. EvidenceOK'
    <2>1. route' \in [backend : Backend, fallback : BOOLEAN]
      BY DEF IInv, TypeOK, EvidenceOK, Backend
    <2>. QED  BY <2>1 DEF IInv, TypeOK, EvidenceOK
  <1>4. ObjectsOK'
    BY DEF IInv, TypeOK, ObjectsOK
  <1>5. LiveInv'
    BY DEF IInv, LiveInv, Deciding
  <1>6. RouteInv'
    <2>1. /\ job.kind = "vector" /\ job.backend = "cpu" /\ pc = "route" /\ pc' = "vm"
          /\ UNCHANGED <<job, caller, probeOK, candidate, proof, outcome>>
          /\ route'.backend = "cpu"
      OBVIOUS
    <2>2. proof = NoProof /\ outcome = "none" /\ caller # "deciding"
      BY <2>1 DEF IInv, RouteInv, Deciding
    <2>. HIDE DEF RouteCpu
    <2>. QED  BY <2>1, <2>2, Reports DEF RouteInv, Deciding, Computing
  <1>7. ProofInv'
    BY DEF IInv, RouteInv, ProofInv, Computing
  <1>8. SteadyInv'
    BY DEF IInv, SteadyInv, Computing
  <1>. QED  BY <1>1, <1>2, <1>3, <1>4, <1>5, <1>6, <1>7, <1>8 DEF IInv, TypeOK

\* The first probe is for the route.
LEMMA RouteProbesStep == ASSUME IInv, RouteProbes PROVE IInv'
  <1>. USE DEF RouteProbes, GoTo, Finish, CleanUp, probing, objects
  <1>1. CommandOK'
    BY DEF IInv, TypeOK, CommandOK
  <1>2. ProbeOK'
    BY DEF IInv, TypeOK, ProbeOK
  <1>3. EvidenceOK'
    BY DEF IInv, TypeOK, EvidenceOK
  <1>4. ObjectsOK'
    BY DEF IInv, TypeOK, ObjectsOK
  <1>5. LiveInv'
    BY DEF IInv, LiveInv, Deciding
  <1>6. RouteInv'
    <2>1. /\ job.kind = "vector" /\ job.backend # "cpu" /\ pc = "route" /\ pc' = "access"
          /\ UNCHANGED <<job, route, proof, outcome>> /\ caller' = "routed"
      OBVIOUS
    <2>2. proof = NoProof /\ outcome = "none" /\ route = NoRoute
      BY <2>1 DEF IInv, RouteInv, Deciding
    <2>. HIDE DEF RouteProbes
    <2>. QED  BY <2>1, <2>2, Reports DEF RouteInv, Deciding, Computing
  <1>7. ProofInv'
    BY DEF IInv, RouteInv, ProofInv, Computing
  <1>8. SteadyInv'
    BY DEF IInv, SteadyInv, Computing
  <1>. QED  BY <1>1, <1>2, <1>3, <1>4, <1>5, <1>6, <1>7, <1>8 DEF IInv, TypeOK

\* A route to the CPU was left open, and no hardware was found.
LEMMA RouteStep == ASSUME IInv, Route PROVE IInv'
  <1>. USE DEF Route, GoTo, Finish, CleanUp, probing, objects
  <1>1. CommandOK'
    BY DEF IInv, TypeOK, CommandOK
  <1>2. ProbeOK'
    BY DEF IInv, TypeOK, ProbeOK
  <1>3. EvidenceOK'
    <2>0. UNCHANGED proof /\ (route' = route
             \/ route' = [backend |-> "vulkan", fallback |-> FALSE]
             \/ route' = [backend |-> "cpu", fallback |-> TRUE])
      OBVIOUS
    <2>. HIDE DEF Route
    <2>1. /\ [backend |-> "vulkan", fallback |-> FALSE] \in [backend : Backend, fallback : BOOLEAN]
          /\ [backend |-> "cpu", fallback |-> TRUE] \in [backend : Backend, fallback : BOOLEAN]
      BY DEF Backend
    <2>. QED  BY <2>0, <2>1 DEF IInv, TypeOK, EvidenceOK
  <1>4. ObjectsOK'
    BY DEF IInv, TypeOK, ObjectsOK
  <1>5. LiveInv'
    BY DEF IInv, LiveInv, Deciding
  <1>6. RouteInv'
    <2>1. /\ pc = "routed" /\ UNCHANGED <<job, caller, probeOK, candidate, proof>>
          /\ Hardware' = Hardware
      BY DEF Hardware
    <2>2. \/ pc' = "vm" /\ route'.backend = "vulkan" /\ UNCHANGED outcome
          \/ /\ pc' = "vm" /\ route'.backend = "cpu" /\ route'.fallback /\ UNCHANGED outcome
             /\ ~Hardware /\ job.backend = "auto"
          \/ pc' = "end" /\ UNCHANGED route
      OBVIOUS
    <2>3. /\ proof = NoProof /\ outcome = "none" /\ caller = "routed" /\ job.kind = "vector"
          /\ route = NoRoute
      BY <2>1 DEF IInv, RouteInv, Deciding
    <2>. HIDE DEF Route
    <2>. QED  BY <2>1, <2>2, <2>3, Reports DEF RouteInv, Deciding, Computing
  <1>7. ProofInv'
    BY DEF IInv, RouteInv, ProofInv, Computing
  <1>8. SteadyInv'
    BY DEF IInv, SteadyInv, Computing
  <1>. QED  BY <1>1, <1>2, <1>3, <1>4, <1>5, <1>6, <1>7, <1>8 DEF IInv, TypeOK

\* The VM asks for the back end of its route.
LEMMA RunVmStep == ASSUME IInv, RunVm PROVE IInv'
  <1>. USE DEF RunVm, GoTo, Finish, CleanUp, probing, objects
  <1>1. CommandOK'
    BY DEF IInv, TypeOK, CommandOK
  <1>2. ProbeOK'
    BY DEF IInv, TypeOK, ProbeOK
  <1>3. EvidenceOK'
    BY DEF IInv, TypeOK, EvidenceOK
  <1>4. ObjectsOK'
    BY DEF IInv, TypeOK, ObjectsOK
  <1>5. LiveInv'
    BY DEF IInv, LiveInv, Deciding
  <1>6. RouteInv'
    BY DEF IInv, RouteInv, Deciding, Computing, Asked, Hardware
  <1>7. ProofInv'
    BY DEF IInv, RouteInv, ProofInv, Computing
  <1>8. SteadyInv'
    BY DEF IInv, SteadyInv, Computing
  <1>. QED  BY <1>1, <1>2, <1>3, <1>4, <1>5, <1>6, <1>7, <1>8 DEF IInv, TypeOK

\* A proof on the CPU is one nobody wanted on Vulkan.
LEMMA ProveOnCpuStep == ASSUME IInv, ProveOnCpu PROVE IInv'
  <1>. USE DEF ProveOnCpu, GoTo, Finish, CleanUp, probing, objects
  <1>1. CommandOK'
    BY DEF IInv, TypeOK, CommandOK
  <1>2. ProbeOK'
    BY DEF IInv, TypeOK, ProbeOK
  <1>3. EvidenceOK'
    BY Reports DEF IInv, TypeOK, EvidenceOK
  <1>4. ObjectsOK'
    BY DEF IInv, TypeOK, ObjectsOK
  <1>5. LiveInv'
    BY DEF IInv, LiveInv, Deciding
  <1>6. RouteInv'
    <2>1. /\ pc = "proof" /\ Asked = "cpu" /\ pc' = "checked" /\ proof' = CpuProof
          /\ UNCHANGED <<job, caller, probeOK, candidate, route, outcome>>
          /\ Asked' = Asked /\ Hardware' = Hardware
      BY DEF Asked, Hardware
    <2>. HIDE DEF ProveOnCpu
    <2>. QED  BY <2>1, Reports DEF IInv, RouteInv, Deciding, Computing
  <1>7. ProofInv'
    <2>1. /\ pc = "proof" /\ pc' = "checked" /\ proof' = CpuProof
          /\ UNCHANGED <<gpu, output, outcome>>
      OBVIOUS
    <2>2. proof = NoProof /\ outcome = "none"
      BY <2>1 DEF IInv, RouteInv, Deciding
    <2>. HIDE DEF ProveOnCpu
    <2>. QED  BY <2>1, <2>2, Reports DEF IInv, ProofInv, Computing
  <1>8. SteadyInv'
    BY DEF IInv, SteadyInv, Computing
  <1>. QED  BY <1>1, <1>2, <1>3, <1>4, <1>5, <1>6, <1>7, <1>8 DEF IInv, TypeOK

\* The second probe is for the proof.
LEMMA ProofProbesStep == ASSUME IInv, ProofProbes PROVE IInv'
  <1>. USE DEF ProofProbes, GoTo, Finish, CleanUp, probing, objects
  <1>1. CommandOK'
    BY DEF IInv, TypeOK, CommandOK
  <1>2. ProbeOK'
    BY DEF IInv, TypeOK, ProbeOK
  <1>3. EvidenceOK'
    BY DEF IInv, TypeOK, EvidenceOK
  <1>4. ObjectsOK'
    BY DEF IInv, TypeOK, ObjectsOK
  <1>5. LiveInv'
    BY DEF IInv, LiveInv, Deciding
  <1>6. RouteInv'
    <2>1. /\ pc = "proof" /\ Asked # "cpu" /\ pc' = "access" /\ caller' = "proving"
          /\ UNCHANGED <<job, route, proof, outcome>> /\ Asked' = Asked
      BY DEF Asked
    <2>2. job.kind \in {"vector", "proof"} /\ proof = NoProof
          /\ (job.kind = "vector" => route.backend # "cpu") /\ Asked \in {"auto", "vulkan"}
      BY <2>1, GpuAssumption DEF IInv, TypeOK, CommandOK, EvidenceOK, Backend, RouteInv, Deciding, JobOK, Asked
    <2>. HIDE DEF ProofProbes
    <2>. QED  BY <2>1, <2>2, Reports DEF IInv, RouteInv, Deciding, Computing
  <1>7. ProofInv'
    BY DEF IInv, RouteInv, ProofInv, Computing
  <1>8. SteadyInv'
    BY DEF IInv, SteadyInv, Computing
  <1>. QED  BY <1>1, <1>2, <1>3, <1>4, <1>5, <1>6, <1>7, <1>8 DEF IInv, TypeOK

\* Vulkan is only asked for with hardware.
LEMMA ProveStep == ASSUME IInv, Prove PROVE IInv'
  <1>. USE DEF Prove, GoTo, Finish, CleanUp, probing, objects
  <1>0. /\ pc = "proving" /\ proof = NoProof /\ outcome = "none" /\ caller = "proving"
        /\ job.kind \in {"vector", "proof"} /\ (job.kind = "vector" => route.backend # "cpu")
    BY DEF IInv, RouteInv, Deciding
  <1>00. /\ UNCHANGED <<job, caller, probeOK, candidate, route, gpu, output, steady, render, machine>>
         /\ \/ /\ pc' = "open" /\ UNCHANGED outcome /\ candidate # <<>>
               /\ proof' = [NoProof EXCEPT !.backend = "vulkan"]
            \/ /\ pc' = "checked" /\ UNCHANGED outcome /\ proof' = CpuProof
               /\ ~Hardware /\ Asked = "auto"
            \/ pc' = "end" /\ outcome' = "refused" /\ UNCHANGED proof
    BY DEF Hardware
  <1>000. /\ [NoProof EXCEPT !.backend = "vulkan"].backend = "vulkan"
          /\ [NoProof EXCEPT !.backend = "vulkan"].device = <<>>
          /\ ~[NoProof EXCEPT !.backend = "vulkan"].attempted
          /\ ~[NoProof EXCEPT !.backend = "vulkan"].match
    BY DEF NoProof
  <1>1. CommandOK'
    BY DEF IInv, TypeOK, CommandOK
  <1>2. ProbeOK'
    BY DEF IInv, TypeOK, ProbeOK
  <1>3. EvidenceOK'
    <2>1. proof' = proof \/ proof' = CpuProof \/ proof' = [NoProof EXCEPT !.backend = "vulkan"]
      OBVIOUS
    <2>2. [NoProof EXCEPT !.backend = "vulkan"]
             \in [backend : Backend, fallback : BOOLEAN, device : OneDevice,
                  attempted : BOOLEAN, completed : BOOLEAN, match : BOOLEAN]
      BY Reports DEF Backend
    <2>3. UNCHANGED route
      OBVIOUS
    <2>. HIDE DEF Prove
    <2>. QED  BY <2>1, <2>2, <2>3, Reports DEF IInv, TypeOK, EvidenceOK
  <1>4. ObjectsOK'
    BY DEF IInv, TypeOK, ObjectsOK
  <1>5. LiveInv'
    BY DEF IInv, LiveInv, Deciding
  <1>6. RouteInv'
    <2>1. Asked' = Asked /\ Hardware' = Hardware
      BY <1>00 DEF Asked, Hardware
    <2>. HIDE DEF Prove
    <2>. QED  BY <1>0, <1>00, <1>000, <2>1, Reports DEF IInv, RouteInv, Deciding, Computing
  <1>7. ProofInv'
    <2>. HIDE DEF Prove
    <2>. QED  BY <1>0, <1>00, <1>000, Reports DEF IInv, ProofInv, Computing
  <1>8. SteadyInv'
    <2>. HIDE DEF Prove
    <2>. QED  BY <1>0, <1>00 DEF IInv, SteadyInv, Computing
  <1>. QED  BY <1>1, <1>2, <1>3, <1>4, <1>5, <1>6, <1>7, <1>8 DEF IInv, TypeOK

\* The render node is there, unless the machine changed since the probe.
LEMMA OpenStep == ASSUME IInv, Open PROVE IInv'
  <1>. USE DEF Open, GoTo, Finish, CleanUp, probing, objects
  <1>1. CommandOK'
    BY DEF IInv, TypeOK, CommandOK
  <1>2. ProbeOK'
    BY DEF IInv, TypeOK, ProbeOK
  <1>3. EvidenceOK'
    BY DEF IInv, TypeOK, EvidenceOK
  <1>4. ObjectsOK'
    BY DEF IInv, TypeOK, ObjectsOK
  <1>5. LiveInv'
    BY DEF IInv, LiveInv, Deciding
  <1>6. RouteInv'
    BY DEF IInv, RouteInv, Deciding, Computing, Asked, Hardware
  <1>7. ProofInv'
    BY DEF IInv, RouteInv, ProofInv, Computing
  <1>8. SteadyInv'
    BY DEF IInv, SteadyInv, Computing
  <1>. QED  BY <1>1, <1>2, <1>3, <1>4, <1>5, <1>6, <1>7, <1>8 DEF IInv, TypeOK

\* So is the loader, but for the symbols the probe does not need.
LEMMA LoadStep == ASSUME IInv, Load PROVE IInv'
  <1>. USE DEF Load, GoTo, Finish, CleanUp, probing, objects
  <1>1. CommandOK'
    BY DEF IInv, TypeOK, CommandOK
  <1>2. ProbeOK'
    BY DEF IInv, TypeOK, ProbeOK
  <1>3. EvidenceOK'
    BY DEF IInv, TypeOK, EvidenceOK
  <1>4. ObjectsOK'
    BY DEF IInv, TypeOK, ObjectsOK, Objects
  <1>5. LiveInv'
    <2>1. pc = "load" /\ live = {} /\ ~(gpu = "running" /\ ~gaveUp)
      BY DEF IInv, LiveInv, Deciding
    <2>2. UNCHANGED <<gpu, gaveUp>>
          /\ \/ pc' = "climb" /\ at' = 1 /\ live' = {"loader"}
             \/ pc' = "end" /\ UNCHANGED live
      OBVIOUS
    <2>. HIDE DEF Load
    <2>. QED  BY <2>1, <2>2, LadderCalls DEF LiveInv, Deciding, Parent
  <1>6. RouteInv'
    BY DEF IInv, RouteInv, Deciding, Computing, Asked, Hardware
  <1>7. ProofInv'
    <2>1. pc = "load" /\ pc' \in {"climb", "end"} /\ (pc' = "climb" => at' = 1 /\ UNCHANGED outcome)
          /\ UNCHANGED <<proof, gpu, output>> /\ outcome' # "ok"
      BY DEF IInv, RouteInv
    <2>. HIDE DEF Load
    <2>2. ~(proof.backend = "vulkan" /\ proof.match)
      BY <2>1 DEF IInv, ProofInv, Computing
    <2>3. pc = "load" /\ proof' = proof /\ outcome = "none"
      BY <2>1 DEF IInv, ProofInv, Computing
    <2>4. pc' \in {"climb", "end"} /\ ~(pc' = "climb" /\ at' > 2)
          /\ (pc' = "climb" => outcome' = "none") /\ gpu' = gpu /\ output' = output
      BY <2>1, <2>3
    <2>. QED  BY <2>2, <2>3, <2>4, <2>1 DEF IInv, ProofInv, Computing
  <1>8. SteadyInv'
    <2>1. /\ pc = "load" /\ UNCHANGED <<machine, steady, candidate>>
          /\ \/ pc' = "climb" /\ UNCHANGED outcome
             \/ pc' = "end" /\ machine.loader # "full"
      OBVIOUS
    <2>. HIDE DEF Load
    <2>2. machine.loader \in {"none", "probe", "full"}
      BY GpuAssumption DEF IInv, TypeOK, CommandOK, MachineOK
    <2>. QED  BY <2>1, <2>2 DEF IInv, SteadyInv, Computing
  <1>. QED  BY <1>1, <1>2, <1>3, <1>4, <1>5, <1>6, <1>7, <1>8 DEF IInv, TypeOK

\* Each call makes one object, from objects made before it.
LEMMA CallStep == ASSUME IInv, Call PROVE IInv'
  <1>. USE DEF Call, GoTo, Finish, CleanUp, probing, objects
  <1>0. /\ pc = "climb" /\ at \in 1..19 /\ Ladder[at] # "select" /\ at' = at + 1
        /\ live' = live \cup ({Ladder[at]} \cap Objects)
        /\ pc' = (IF at = 19 THEN "submit" ELSE "climb")
        /\ UNCHANGED <<proof, gpu, gaveUp, outcome>>
    BY LadderCalls DEF IInv, LiveInv
  <1>1. CommandOK'
    BY <1>0 DEF IInv, TypeOK, CommandOK
  <1>2. ProbeOK'
    BY DEF IInv, TypeOK, ProbeOK
  <1>3. EvidenceOK'
    BY DEF IInv, TypeOK, EvidenceOK
  <1>4. ObjectsOK'
    BY DEF IInv, TypeOK, ObjectsOK
  <1>5. LiveInv'
    <2>. HIDE DEF Call
    <2>1. /\ "loader" \in live /\ live \subseteq Objects /\ ~(gpu = "running" /\ ~gaveUp)
          /\ \A i \in 1..(at - 1) : Ladder[i] \in Objects => Ladder[i] \in live
      BY <1>0 DEF IInv, LiveInv, TypeOK, ObjectsOK
    <2>2. ASSUME NEW o \in live' PROVE Parent(o) \subseteq live'
      <3>1. CASE o \in live
        BY <1>0, <3>1 DEF IInv, LiveInv
      <3>2. CASE o = Ladder[at] /\ o \in Objects
        BY <1>0, <2>1, <3>2, LadderUpwards
      <3>. QED  BY <1>0, <3>1, <3>2
    <2>3. \A i \in 1..at : Ladder[i] \in Objects => Ladder[i] \in live'
      BY <1>0, <2>1
    <2>4. at = 19 => live' = Objects
      BY <1>0, <2>1, <2>3, LadderMakesAll
    <2>. QED  BY <1>0, <2>1, <2>2, <2>3, <2>4, LadderCalls DEF LiveInv, Deciding
  <1>6. RouteInv'
    BY DEF IInv, RouteInv, Deciding, Computing, Asked, Hardware
  <1>7. ProofInv'
    <2>. HIDE DEF Call
    <2>1. at > 1 => proof.device # <<>>
      BY <1>0, LadderCalls DEF IInv, ProofInv
    <2>2. ~proof.match /\ proof.backend = "vulkan" /\ outcome = "none"
      BY <1>0 DEF IInv, ProofInv, Computing
    <2>3. at' > 2 => proof.device # <<>>
      BY <1>0, <2>1
    <2>4. pc' \in {"climb", "submit"} /\ (pc' = "submit" => at' > 2)
      BY <1>0
    <2>. QED  BY <1>0, <2>2, <2>3, <2>4 DEF IInv, ProofInv, Computing
  <1>8. SteadyInv'
    BY DEF IInv, SteadyInv, Computing
  <1>. QED  BY <1>1, <1>2, <1>3, <1>4, <1>5, <1>6, <1>7, <1>8 DEF IInv, TypeOK

\* A failed call leads to the release of what there is.
LEMMA CallFailsStep == ASSUME IInv, CallFails PROVE IInv'
  <1>. USE DEF CallFails, GoTo, Finish, CleanUp, probing, objects
  <1>1. CommandOK'
    BY DEF IInv, TypeOK, CommandOK
  <1>2. ProbeOK'
    BY DEF IInv, TypeOK, ProbeOK
  <1>3. EvidenceOK'
    BY DEF IInv, TypeOK, EvidenceOK
  <1>4. ObjectsOK'
    BY DEF IInv, TypeOK, ObjectsOK
  <1>5. LiveInv'
    BY ReleaseAll DEF IInv, LiveInv, Deciding
  <1>6. RouteInv'
    BY DEF IInv, RouteInv, Deciding, Computing, Asked, Hardware
  <1>7. ProofInv'
    BY DEF IInv, RouteInv, ProofInv, Computing
  <1>8. SteadyInv'
    BY DEF IInv, SteadyInv, Computing
  <1>. QED  BY <1>1, <1>2, <1>3, <1>4, <1>5, <1>6, <1>7, <1>8 DEF IInv, TypeOK

\* A device is selected wherever the probe had found one.
LEMMA SelectStep == ASSUME IInv, Select PROVE IInv'
  <1>. USE DEF Select, GoTo, Finish, CleanUp, probing, objects
  <1>0. /\ pc = "climb" /\ at \in 1..18 /\ Ladder[at] = "select"
        /\ proof' = [proof EXCEPT !.device = Selected(machine.devices)]
        /\ \/ /\ pc' = "release" /\ at' = 1 /\ outcome' = "unavailable"
              /\ Selected(machine.devices) = <<>>
           \/ /\ pc' = "climb" /\ at' = at + 1 /\ UNCHANGED outcome
              /\ Selected(machine.devices) # <<>>
        /\ UNCHANGED <<machine, route, live, gpu, gaveUp, output, steady, candidate>>
    BY LadderCalls DEF IInv, LiveInv
  <1>00. /\ Selected(machine.devices) \in OneDevice
         /\ \A d \in Device : Selected(machine.devices) = <<d>> => IsSupported(d, TRUE)
    BY SelectedFits DEF IInv, TypeOK, CommandOK
  <1>1. CommandOK'
    BY <1>0 DEF IInv, TypeOK, CommandOK
  <1>2. ProbeOK'
    BY DEF IInv, TypeOK, ProbeOK
  <1>3. EvidenceOK'
    <2>. HIDE DEF Select
    <2>. QED  BY <1>0, <1>00, WriteProof DEF IInv, TypeOK, EvidenceOK
  <1>4. ObjectsOK'
    BY DEF IInv, TypeOK, ObjectsOK
  <1>5. LiveInv'
    <2>. HIDE DEF Select
    <2>1. "select" \notin Objects
      BY DEF Objects
    <2>. QED  BY <1>0, <2>1, LadderCalls, ReleaseAll DEF IInv, LiveInv, Deciding
  <1>6. RouteInv'
    BY DEF IInv, RouteInv, Deciding, Computing, Asked, Hardware
  <1>7. ProofInv'
    <2>. HIDE DEF Select
    <2>1. /\ proof'.device = Selected(machine.devices) /\ proof'.backend = proof.backend
          /\ proof'.attempted = proof.attempted /\ proof'.completed = proof.completed
          /\ proof'.match = proof.match
      BY <1>0, <1>00, WriteProof DEF IInv, TypeOK
    <2>. QED  BY <1>0, <1>00, <2>1 DEF IInv, ProofInv, Computing
  <1>8. SteadyInv'
    BY DEF IInv, SteadyInv, Computing
  <1>. QED  BY <1>1, <1>2, <1>3, <1>4, <1>5, <1>6, <1>7, <1>8 DEF IInv, TypeOK

\* A submission comes after every call succeeded.
LEMMA SubmitStep == ASSUME IInv, Submit PROVE IInv'
  <1>. USE DEF Submit, GoTo, Finish, CleanUp, probing, objects
  <1>0. /\ pc = "submit" /\ proof' = [proof EXCEPT !.attempted = TRUE]
        /\ \/ pc' = "wait" /\ gpu' = "running" /\ UNCHANGED outcome
           \/ pc' = "release" /\ at' = 1 /\ outcome' = "vulkan" /\ UNCHANGED gpu
        /\ UNCHANGED <<live, gaveUp, output>>
    OBVIOUS
  <1>1. CommandOK'
    BY DEF IInv, TypeOK, CommandOK
  <1>2. ProbeOK'
    BY DEF IInv, TypeOK, ProbeOK
  <1>3. EvidenceOK'
    BY WriteProof DEF IInv, TypeOK, EvidenceOK
  <1>4. ObjectsOK'
    BY DEF IInv, TypeOK, ObjectsOK
  <1>5. LiveInv'
    <2>. HIDE DEF Submit
    <2>. QED  BY <1>0, ReleaseAll DEF IInv, LiveInv, Deciding
  <1>6. RouteInv'
    BY DEF IInv, RouteInv, Deciding, Computing, Asked, Hardware
  <1>7. ProofInv'
    <2>. HIDE DEF Submit
    <2>1. /\ proof'.device = proof.device /\ proof'.backend = proof.backend /\ proof'.attempted
          /\ proof'.match = proof.match
      BY <1>0, WriteProof DEF IInv, TypeOK
    <2>2. ~proof.match
      BY <1>0 DEF IInv, ProofInv, Computing
    <2>. QED  BY <1>0, <2>1, <2>2 DEF IInv, ProofInv, Computing
  <1>8. SteadyInv'
    BY DEF IInv, SteadyInv, Computing
  <1>. QED  BY <1>1, <1>2, <1>3, <1>4, <1>5, <1>6, <1>7, <1>8 DEF IInv, TypeOK

\* A wait that succeeds comes after the GPU is done.
LEMMA WaitStep == ASSUME IInv, Wait PROVE IInv'
  <1>. USE DEF Wait, GoTo, Finish, CleanUp, probing, objects
  <1>0. /\ pc = "wait" /\ UNCHANGED <<job, caller, probeOK, candidate, route, live, gpu, output>>
        /\ \/ /\ gpu = "done" /\ proof' = [proof EXCEPT !.completed = TRUE]
              /\ pc' = "compare" /\ UNCHANGED <<outcome, gaveUp>>
           \/ /\ pc' = "release" /\ at' = 1 /\ outcome' = "vulkan" /\ UNCHANGED proof
              /\ (gpu = "running" => gaveUp')
    OBVIOUS
  <1>00. /\ proof'.device = proof.device /\ proof'.backend = proof.backend
         /\ proof'.attempted = proof.attempted /\ proof'.match = proof.match
         /\ pc' = "compare" => proof'.completed
    <2>. HIDE DEF Wait
    <2>. QED  BY <1>0, WriteProof DEF IInv, TypeOK
  <1>1. CommandOK'
    BY DEF IInv, TypeOK, CommandOK
  <1>2. ProbeOK'
    BY DEF IInv, TypeOK, ProbeOK
  <1>3. EvidenceOK'
    BY WriteProof DEF IInv, TypeOK, EvidenceOK
  <1>4. ObjectsOK'
    BY DEF IInv, TypeOK, ObjectsOK
  <1>5. LiveInv'
    <2>. HIDE DEF Wait
    <2>. QED  BY <1>0, ReleaseAll DEF IInv, LiveInv, Deciding
  <1>6. RouteInv'
    <2>1. Asked' = Asked /\ Hardware' = Hardware /\ proof.backend = "vulkan"
      BY <1>0 DEF Asked, Hardware, IInv, ProofInv, Computing
    <2>. HIDE DEF Wait
    <2>. QED  BY <1>0, <1>00, <2>1 DEF IInv, RouteInv, Deciding, Computing
  <1>7. ProofInv'
    <2>. HIDE DEF Wait
    <2>1. ~proof.match
      BY <1>0 DEF IInv, ProofInv, Computing
    <2>. QED  BY <1>0, <1>00, <2>1 DEF IInv, ProofInv, Computing
  <1>8. SteadyInv'
    BY DEF IInv, SteadyInv, Computing
  <1>. QED  BY <1>1, <1>2, <1>3, <1>4, <1>5, <1>6, <1>7, <1>8 DEF IInv, TypeOK

\* Only the right output matches.
LEMMA CompareOutputStep == ASSUME IInv, CompareOutput PROVE IInv'
  <1>. USE DEF CompareOutput, GoTo, Finish, CleanUp, probing, objects
  <1>0. PICK seen \in {output, "poison"} :
          /\ pc = "compare" /\ pc' = "release" /\ at' = 1
          /\ proof' = [proof EXCEPT !.match = Match(seen)]
          /\ outcome' = (IF Match(seen) THEN "none" ELSE "mismatch")
          /\ UNCHANGED <<live, gpu, gaveUp, output, route>>
    OBVIOUS
  <1>00. /\ proof'.device = proof.device /\ proof'.backend = proof.backend
         /\ proof'.attempted = proof.attempted /\ proof'.completed = proof.completed
         /\ proof'.match = Match(seen) /\ (Match(seen) => output = "right")
         /\ proof' \in [backend : Backend, fallback : BOOLEAN, device : OneDevice,
                        attempted : BOOLEAN, completed : BOOLEAN, match : BOOLEAN]
    <2>1. Match(seen) \in BOOLEAN /\ (Match(seen) => output = "right")
      BY DEF Match
    <2>. HIDE DEF CompareOutput
    <2>. QED  BY <1>0, <2>1, WriteProof DEF IInv, TypeOK
  <1>1. CommandOK'
    BY DEF IInv, TypeOK, CommandOK
  <1>2. ProbeOK'
    BY DEF IInv, TypeOK, ProbeOK
  <1>3. EvidenceOK'
    <2>. HIDE DEF CompareOutput
    <2>. QED  BY <1>0, <1>00 DEF IInv, TypeOK, EvidenceOK
  <1>4. ObjectsOK'
    BY DEF IInv, TypeOK, ObjectsOK
  <1>5. LiveInv'
    <2>. HIDE DEF CompareOutput
    <2>. QED  BY <1>0, ReleaseAll DEF IInv, LiveInv, Deciding
  <1>6. RouteInv'
    BY DEF IInv, RouteInv, Deciding, Computing, Asked, Hardware
  <1>7. ProofInv'
    <2>. HIDE DEF CompareOutput
    <2>. QED  BY <1>0, <1>00 DEF IInv, ProofInv, Computing
  <1>8. SteadyInv'
    BY DEF IInv, SteadyInv, Computing
  <1>. QED  BY <1>1, <1>2, <1>3, <1>4, <1>5, <1>6, <1>7, <1>8 DEF IInv, TypeOK

\* Releasing goes from what was made last to what was made first.
LEMMA ReleaseStep == ASSUME IInv, Release PROVE IInv'
  <1>. USE DEF Release, GoTo, Finish, CleanUp, probing, objects
  <1>0. /\ pc = "release" /\ at \in 1..12 /\ at' = at + 1 /\ live' = live \ ReleaseOrder[at]
        /\ pc' = (IF at < 12 THEN "release" ELSE IF outcome = "none" THEN "checked" ELSE "end")
        /\ UNCHANGED <<gpu, gaveUp>>
    BY ReleaseAll DEF IInv, LiveInv
  <1>1. CommandOK'
    BY <1>0 DEF IInv, TypeOK, CommandOK
  <1>2. ProbeOK'
    BY DEF IInv, TypeOK, ProbeOK
  <1>3. EvidenceOK'
    BY DEF IInv, TypeOK, EvidenceOK
  <1>4. ObjectsOK'
    BY DEF IInv, TypeOK, ObjectsOK
  <1>5. LiveInv'
    <2>. HIDE DEF Release
    <2>1. /\ live \subseteq Objects /\ \A o \in live : Parent(o) \subseteq live
          /\ \A i \in 1..(at - 1) : live \cap ReleaseOrder[i] = {}
          /\ ~(gpu = "running" /\ ~gaveUp)
      BY <1>0 DEF IInv, LiveInv, TypeOK, ObjectsOK
    <2>2. \A i \in 1..at : live' \cap ReleaseOrder[i] = {}
      BY <1>0, <2>1
    <2>3. ASSUME NEW o \in live', NEW q \in Parent(o) PROVE q \in live'
      <3>1. q \in live /\ o \in Objects
        BY <1>0, <2>1
      <3>2. q \notin ReleaseOrder[at]
        BY <1>0, <2>2, <3>1, ReleaseDownwards
      <3>. QED  BY <1>0, <3>1, <3>2
    <2>4. at = 12 => live' = {}
      BY <1>0, <2>1, <2>2, ReleaseAll
    <2>. QED  BY <1>0, <2>1, <2>2, <2>3, <2>4, ReleaseAll DEF LiveInv, Deciding
  <1>6. RouteInv'
    BY DEF IInv, RouteInv, Deciding, Computing, Asked, Hardware
  <1>7. ProofInv'
    BY DEF IInv, RouteInv, ProofInv, Computing
  <1>8. SteadyInv'
    BY DEF IInv, SteadyInv, Computing
  <1>. QED  BY <1>1, <1>2, <1>3, <1>4, <1>5, <1>6, <1>7, <1>8 DEF IInv, TypeOK

\* What succeeds has a proof that agrees with its route.
LEMMA CheckStep == ASSUME IInv, Check PROVE IInv'
  <1>. USE DEF Check, GoTo, Finish, CleanUp, probing, objects
  <1>1. CommandOK'
    BY DEF IInv, TypeOK, CommandOK
  <1>2. ProbeOK'
    BY DEF IInv, TypeOK, ProbeOK
  <1>3. EvidenceOK'
    BY DEF IInv, TypeOK, EvidenceOK
  <1>4. ObjectsOK'
    BY DEF IInv, TypeOK, ObjectsOK
  <1>5. LiveInv'
    BY DEF IInv, LiveInv, Deciding
  <1>6. RouteInv'
    BY DEF IInv, RouteInv, Deciding, Computing, Asked, Hardware
  <1>7. ProofInv'
    BY DEF IInv, RouteInv, ProofInv, Computing
  <1>8. SteadyInv'
    BY DEF IInv, SteadyInv, Computing
  <1>. QED  BY <1>1, <1>2, <1>3, <1>4, <1>5, <1>6, <1>7, <1>8 DEF IInv, TypeOK

\* A change of the machine is noticed by steady alone.
LEMMA MachineChangesStep == ASSUME IInv, MachineChanges PROVE IInv'
  <1>. USE DEF MachineChanges, GoTo, Finish, CleanUp, probing, objects
  <1>1. CommandOK'
    BY DEF IInv, TypeOK, CommandOK
  <1>2. ProbeOK'
    BY DEF IInv, TypeOK, ProbeOK
  <1>3. EvidenceOK'
    BY DEF IInv, TypeOK, EvidenceOK
  <1>4. ObjectsOK'
    BY DEF IInv, TypeOK, ObjectsOK
  <1>5. LiveInv'
    BY DEF IInv, LiveInv, Deciding
  <1>6. RouteInv'
    BY DEF IInv, RouteInv, Deciding, Computing, Asked, Hardware
  <1>7. ProofInv'
    BY DEF IInv, RouteInv, ProofInv, Computing
  <1>8. SteadyInv'
    BY DEF IInv, SteadyInv, Computing
  <1>. QED  BY <1>1, <1>2, <1>3, <1>4, <1>5, <1>6, <1>7, <1>8 DEF IInv, TypeOK

\* The GPU writes its output while the command waits, or after it gave up.
LEMMA GpuFinishesStep == ASSUME IInv, GpuFinishes PROVE IInv'
  <1>. USE DEF GpuFinishes, GoTo, Finish, CleanUp, probing, objects
  <1>1. CommandOK'
    BY DEF IInv, TypeOK, CommandOK
  <1>2. ProbeOK'
    BY DEF IInv, TypeOK, ProbeOK
  <1>3. EvidenceOK'
    BY DEF IInv, TypeOK, EvidenceOK
  <1>4. ObjectsOK'
    BY DEF IInv, TypeOK, ObjectsOK
  <1>5. LiveInv'
    BY DEF IInv, LiveInv, Deciding
  <1>6. RouteInv'
    BY DEF IInv, RouteInv, Deciding, Computing, Asked, Hardware
  <1>7. ProofInv'
    BY DEF IInv, RouteInv, ProofInv, Computing
  <1>8. SteadyInv'
    BY DEF IInv, SteadyInv, Computing
  <1>. QED  BY <1>1, <1>2, <1>3, <1>4, <1>5, <1>6, <1>7, <1>8 DEF IInv, TypeOK

\* A lost device proves nothing.
LEMMA GpuLostStep == ASSUME IInv, GpuLost PROVE IInv'
  <1>. USE DEF GpuLost, GoTo, Finish, CleanUp, probing, objects
  <1>1. CommandOK'
    BY DEF IInv, TypeOK, CommandOK
  <1>2. ProbeOK'
    BY DEF IInv, TypeOK, ProbeOK
  <1>3. EvidenceOK'
    BY DEF IInv, TypeOK, EvidenceOK
  <1>4. ObjectsOK'
    BY DEF IInv, TypeOK, ObjectsOK
  <1>5. LiveInv'
    BY DEF IInv, LiveInv, Deciding
  <1>6. RouteInv'
    BY DEF IInv, RouteInv, Deciding, Computing, Asked, Hardware
  <1>7. ProofInv'
    BY DEF IInv, RouteInv, ProofInv, Computing
  <1>8. SteadyInv'
    BY DEF IInv, SteadyInv, Computing
  <1>. QED  BY <1>1, <1>2, <1>3, <1>4, <1>5, <1>6, <1>7, <1>8 DEF IInv, TypeOK

\* Every step preserves the invariant.
LEMMA IInvStep == ASSUME IInv, [Next]_vars PROVE IInv'
  <1>1. CASE Command
    BY <1>1, ProbeAccessStep, ProbeStep, DecideStep, RouteOtherStep, RouteCpuStep,
       RouteProbesStep, RouteStep, RunVmStep, ProveOnCpuStep, ProofProbesStep, ProveStep,
       OpenStep, LoadStep, CallStep, CallFailsStep, SelectStep, SubmitStep, WaitStep,
       CompareOutputStep, ReleaseStep, CheckStep DEF Command
  <1>2. CASE MachineChanges \/ GpuFinishes \/ GpuLost
    BY <1>2, MachineChangesStep, GpuFinishesStep, GpuLostStep
  <1>3. CASE UNCHANGED vars
    <2>. USE <1>3 DEF vars, probing, objects
    <2>1. CommandOK' /\ ProbeOK' /\ EvidenceOK' /\ ObjectsOK'
      BY DEF IInv, TypeOK, CommandOK, ProbeOK, EvidenceOK, ObjectsOK
    <2>2. LiveInv'
      BY DEF IInv, LiveInv
    <2>3. RouteInv'
      BY DEF IInv, RouteInv, Asked, Hardware
    <2>4. ProofInv'
      BY DEF IInv, ProofInv
    <2>5. SteadyInv'
      BY DEF IInv, SteadyInv
    <2>. QED  BY <2>1, <2>2, <2>3, <2>4, <2>5 DEF IInv, TypeOK
  <1>. QED  BY <1>1, <1>2, <1>3 DEF Next

\* The invariant holds in every reachable state.
THEOREM Invariance == Spec => []IInv
  <1>. QED  BY InitInv, IInvStep, PTL DEF Spec

\* Every reachable state is well typed: in particular a proof names at most
\* one device, and one that some machine has.
THEOREM TypeCorrect == Spec => []TypeOK
  <1>1. IInv => TypeOK
    BY DEF IInv
  <1>. QED  BY Invariance, <1>1, PTL

\* qn_gpu_compute_cleanup releases everything, whichever call failed, nothing
\* before what was made from it or while the GPU uses it.
THEOREM OrderlyRelease == Spec => []ReleasedInOrder
  <1>1. IInv => ReleasedInOrder
    BY DEF IInv, LiveInv, ReleasedInOrder, InUse, Objects
  <1>. QED  BY Invariance, <1>1, PTL

\* A successful command computed where its report says, and on Vulkan only
\* with a device that fits, which finished and wrote the right output.
THEOREM TrueEvidence == Spec => []EvidenceIsTrue
  <1>1. IInv => EvidenceIsTrue
    <2>. SUFFICES ASSUME IInv, outcome = "ok" PROVE EvidenceIsTrue
      BY DEF EvidenceIsTrue
    <2>1. pc \in {"release", "end"}
      BY DEF IInv, RouteInv
    <2>. DEFINE told == IF job.kind = "proof" THEN proof ELSE route
    <2>2. /\ told.backend = "vulkan" => job.kind \in {"vector", "proof"} /\ proof.backend = "vulkan"
          /\ job.kind \in {"vector", "proof"} => proof.match
          /\ job.kind = "vector" => proof.backend = route.backend
      BY GpuAssumption, Reports DEF IInv, TypeOK, CommandOK, JobOK, RouteInv, ProofInv
    <2>3. told.backend = "vulkan" =>
            /\ gpu = "done" /\ output = "right" /\ proof.attempted /\ proof.completed
            /\ IsSupported(proof.device[1], TRUE)
      <3>1. ASSUME proof.device # <<>> PROVE IsSupported(proof.device[1], TRUE)
        <4>1. proof.device \in OneDevice
          BY DEF IInv, TypeOK, EvidenceOK
        <4>2. PICK d \in Device : proof.device = <<d>>
          BY <3>1, <4>1 DEF OneDevice
        <4>3. \A e \in Device : proof.device = <<e>> => IsSupported(e, TRUE)
          BY DEF IInv, ProofInv
        <4>4. proof.device[1] = d
          BY <4>2
        <4>. QED  BY <4>2, <4>3, <4>4
      <3>. QED  BY <2>2, <3>1 DEF IInv, ProofInv
    <2>4. told.backend = "cpu" =>
            /\ job.backend # "vulkan" /\ gpu = "idle" /\ ~proof.attempted
            /\ job.backend = "auto" => told.fallback /\ ~Hardware
      <3>. SUFFICES ASSUME told.backend = "cpu"
                    PROVE  /\ job.backend # "vulkan" /\ gpu = "idle" /\ ~proof.attempted
                           /\ job.backend = "auto" => told.fallback /\ ~Hardware
        OBVIOUS
      <3>1. proof.backend # "vulkan" /\ gpu = "idle" /\ ~proof.attempted
        BY <2>2, Reports, GpuAssumption DEF IInv, TypeOK, CommandOK, JobOK, RouteInv, ProofInv
      <3>2. CASE job.kind = "proof"
        <4>1. proof = CpuProof /\ CpuProof.fallback /\ Asked = job.backend
          BY <3>2 DEF IInv, RouteInv, Asked, CpuProof, NoProof
        <4>. QED  BY <3>1, <3>2, <4>1 DEF IInv, RouteInv
      <3>3. CASE job.kind = "vector"
        BY <3>1, <3>3 DEF IInv, RouteInv
      <3>4. CASE job.kind \in {"other", "mixed"}
        BY <3>1, <3>4 DEF IInv, RouteInv, Hardware
      <3>5. CASE job.kind = "probe"
        BY <3>5, Reports DEF IInv, RouteInv
      <3>. QED  BY <3>2, <3>3, <3>4, <3>5, GpuAssumption DEF IInv, TypeOK, CommandOK, JobOK
    <2>. QED  BY <2>2, <2>3, <2>4 DEF EvidenceIsTrue
  <1>. QED  BY Invariance, <1>1, PTL

\* A computation that finds no device, no access or no loader comes after a
\* change of the machine, or found a loader with the symbols of the probe only.
THEOREM ProbeTrusted == Spec => []ProbeForesees
  <1>1. IInv => ProbeForesees
    BY DEF IInv, SteadyInv, ProbeForesees
  <1>. QED  BY Invariance, <1>1, PTL
=============================================================================
