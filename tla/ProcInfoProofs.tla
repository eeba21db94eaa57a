--------------------------- MODULE ProcInfoProofs ---------------------------
(***************************************************************************)
(* Proofs about getprocinfo over the process table (ProcInfo), for every  *)
(* NPROC, set of CPUs, pid bound and set of values compute_weight leaves.  *)
(*                                                                         *)
(* A lookup that finds a live process finds that process only because   *)
(* pids are unique and a live slot never has pid 0, the pid of freed      *)
(* slots. Neither holds by itself: the invariant carries the pid facts of *)
(* ProcPidProofs and the lock discipline of ProcProofs through every step *)
(* of the composed specification.                                          *)
(***************************************************************************)
EXTENDS ProcInfo, ProcPidProofs

USE NPROCAssumption, CPUAssumption, MaxPidAssumption, IndeterminateAssumption

(* The replies are functions of the CPUs.                                  *)
ReplyDomains == DOMAIN info = CPU /\ DOMAIN tinfo = CPU

InfoInv ==
    /\ IInv /\ PidFresh /\ UniquePids /\ LivePid
    /\ ReplyDomains /\ InfoTypeOK /\ InfoFindsLive

-----------------------------------------------------------------------------
(* Every step of the composed specification is a step of Proc or leaves   *)
(* the process table alone: getprocinfo and gettreeinfo only read it.     *)
LEMMA InfoStepIsProc == [InfoNext]_allVars => [Next]_vars
<1> SUFFICES ASSUME [InfoNext]_allVars PROVE [Next]_vars
    OBVIOUS
<1>1. CASE UNCHANGED allVars
    BY <1>1 DEF allVars
<1>2. ASSUME NEW c \in CPU, ProcStep(c) PROVE Next
    BY <1>2 DEF ProcStep, Next
<1>3. ASSUME NEW c \in CPU, AllocWeight(c) PROVE Next
    BY <1>3 DEF AllocWeight, Next
<1>4. ASSUME NEW c \in CPU,
             \/ \E k \in 0..MaxPid : SysGetProcInfo(c, k)
             \/ SysGetTreeInfo(c)
      PROVE  UNCHANGED vars
    BY <1>4 DEF SysGetProcInfo, SysGetTreeInfo
<1>5. QED
    BY <1>1, <1>2, <1>3, <1>4 DEF InfoNext

(* getprocinfo(k) of the pid of a live slot t reports t: t is the only    *)
(* slot with that pid, so the scan's first match is t.                    *)
LEMMA LookupLive ==
    ASSUME UniquePids, LivePid, NEW k, NEW t \in Slot, pid[t] = k,
           state[t] # "UNUSED"
    PROVE  GetProcInfo(k).slot = t
<1>1. {s \in Slot : pid[s] = k} = {t}
    BY DEF UniquePids, LivePid
<1>2. FirstIn(t, 1, {t})
    BY DEF FirstIn
<1>3. (CHOOSE s \in {t} : FirstIn(s, 1, {t})) = t
    BY <1>2
<1>4. QED
    BY <1>1, <1>3 DEF GetProcInfo

LEMMA InfoInvInit == InitInfo => InfoInv
<1> SUFFICES ASSUME InitInfo PROVE InfoInv
    OBVIOUS
<1>1. Init
    BY DEF InitInfo
<1>2. IInv /\ PidFresh /\ UniquePids
    BY <1>1, IInvInit, PidInvInit DEF PidInv
<1>3. LivePid
    BY <1>1 DEF Init, LivePid, InitSlot
<1>4. ReplyDomains /\ InfoTypeOK /\ InfoFindsLive
    BY DEF InitInfo, ReplyDomains, InfoTypeOK, InfoFindsLive, NoReply
<1>5. QED
    BY <1>2, <1>3, <1>4 DEF InfoInv

LEMMA InfoInvNext == InfoInv /\ [InfoNext]_allVars => InfoInv'
<1> SUFFICES ASSUME InfoInv, [InfoNext]_allVars PROVE InfoInv'
    OBVIOUS
<1>0. [Next]_vars
    BY InfoStepIsProc
<1>1. IInv' /\ PidFresh' /\ UniquePids' /\ LivePid'
    <2>1. PidInv
        BY DEF InfoInv, PidInv, IInv
    <2>2. QED
        BY <1>0, <2>1, IInvNext, PidInvNext, LivePidNext DEF InfoInv, PidInv
<1> SUFFICES ReplyDomains' /\ InfoTypeOK' /\ InfoFindsLive'
    BY <1>1 DEF InfoInv
<1> USE DEF InfoInv
<1>2. CASE UNCHANGED infoVars
    BY <1>2 DEF infoVars, ReplyDomains, InfoTypeOK, InfoFindsLive
<1>3. ASSUME NEW c \in CPU, AllocWeight(c) PROVE ReplyDomains' /\ InfoTypeOK' /\ InfoFindsLive'
    <2>1. PICK w \in Indeterminate : weight' = [weight EXCEPT ![child'[c]] = w]
        BY <1>3 DEF AllocWeight
    <2>2. UNCHANGED <<info, tinfo>>
        BY <1>3 DEF AllocWeight
    <2>3. QED
        BY <2>1, <2>2 DEF ReplyDomains, InfoTypeOK, InfoFindsLive
<1>4. ASSUME NEW c \in CPU, NEW k \in 0..MaxPid, SysGetProcInfo(c, k)
      PROVE  ReplyDomains' /\ InfoTypeOK' /\ InfoFindsLive'
    <2> DEFINE pinfo == GetProcInfo(k)
               alive == {s \in Slot : pid[s] = k /\ state[s] # "UNUSED"}
               r == IF pinfo.pid = -1 THEN [ret |-> -1]
                    ELSE [ret |-> 0, weight |-> pinfo.weight,
                          st |-> state[pinfo.slot], slot |-> pinfo.slot,
                          alive |-> alive]
    <2>1. info' = [info EXCEPT ![c] = r] /\ UNCHANGED <<weight, tinfo>>
        BY <1>4 DEF SysGetProcInfo
    <2>2. alive \subseteq {pinfo.slot}
        BY LookupLive
    <2>3. r.ret \in {-1, 0} /\ (r.ret = 0 => r.alive \subseteq {r.slot})
        BY <2>2
    <2>4. QED
        BY <2>1, <2>3 DEF ReplyDomains, InfoTypeOK, InfoFindsLive
<1>5. ASSUME NEW c \in CPU, SysGetTreeInfo(c)
      PROVE  ReplyDomains' /\ InfoTypeOK' /\ InfoFindsLive'
    <2>1. tinfo' = [tinfo EXCEPT ![c] = [ret |-> 0, summary |-> GetTreeInfo]]
          /\ UNCHANGED <<weight, info>>
        BY <1>5 DEF SysGetTreeInfo
    <2>2. QED
        BY <2>1 DEF ReplyDomains, InfoTypeOK, InfoFindsLive
<1>6. QED
    BY <1>2, <1>3, <1>4, <1>5 DEF InfoNext, ProcStep, allVars, infoVars

-----------------------------------------------------------------------------
(* getprocinfo and gettreeinfo leave the process table alone: every        *)
(* behaviour of the composed specification is a behaviour of Proc, so the *)
(* theorems about Spec (TypeCorrect, OneCpu, Refinement, PidsUnique,       *)
(* WakeupNotLost, ParentsLive, ReapsOwnChild) hold with the two system     *)
(* calls added.                                                            *)
THEOREM InfoKeepsProc == InfoSpec => Spec
<1>1. InitInfo => Init
    BY DEF InitInfo
<1>2. [][InfoNext]_allVars => [][Next]_vars
    BY InfoStepIsProc, PTL
<1>3. QED
    BY <1>1, <1>2, PTL DEF InfoSpec, Spec

-----------------------------------------------------------------------------
(* The weights allocproc stores and the replies of the two system calls   *)
(* keep their types for every set Indeterminate of values compute_weight  *)
(* can leave: an undefined weight is still one of them.                   *)
THEOREM InfoTyped == InfoSpec => []InfoTypeOK
<1>1. InfoSpec => []InfoInv
    BY InfoInvInit, InfoInvNext, PTL DEF InfoSpec
<1>2. QED
    BY <1>1, PTL DEF InfoInv

(* getprocinfo(k) of the pid of a live process reports that process and   *)
(* no freed slot with a stale pid, for every NPROC, set of CPUs and pid    *)
(* bound: allocproc never hands out a pid that is still in the table and a *)
(* live slot never has pid 0.                                              *)
THEOREM InfoLookupSound == InfoSpec => []InfoFindsLive
<1>1. InfoSpec => []InfoInv
    BY InfoInvInit, InfoInvNext, PTL DEF InfoSpec
<1>2. QED
    BY <1>1, PTL DEF InfoInv

=============================================================================
