------------------------------ MODULE ProcInfo ------------------------------
(***************************************************************************)
(* The getprocinfo system call (getprocinfo in src/proc.c, sys_getprocinfo *)
(* in src/xv6-public/sysproc.c) composed with the process table of Proc,   *)
(* and the p->weight that allocproc stores and getprocinfo reports.        *)
(*                                                                         *)
(* compute_weight(nice) has an empty body: the int allocproc stores in     *)
(* p->weight is whatever the call leaves in the return register. That     *)
(* undefined value is a choice from the constant set Indeterminate.        *)
(***************************************************************************)
EXTENDS Proc, Integers

CONSTANT Indeterminate  \* the values compute_weight's missing return can yield

ASSUME IndeterminateAssumption == Indeterminate \subseteq Int /\ Indeterminate # {}

VARIABLES
    weight,     \* p->weight
    info,       \* the last reply of sys_getprocinfo on CPU c, or NoReply
    tinfo       \* the last reply of sys_gettreeinfo on CPU c, or NoReply

infoVars == <<weight, info, tinfo>>
allVars == <<vars, weight, info, tinfo>>

NoReply == [ret |-> -2]

(* userinit's allocproc stores compute_weight(0) in initproc's slot; the  *)
(* other slots keep the zero of the static ptable.                        *)
InitInfo ==
    /\ Init
    /\ \E w \in Indeterminate :
          weight = [s \in Slot |-> IF s = InitSlot THEN w ELSE 0]
    /\ info = [c \in CPU |-> NoReply]
    /\ tinfo = [c \in CPU |-> NoReply]

(* allocproc: the slot taken by ForkAlloc gets p->weight =                *)
(* compute_weight(p->nice_value), an indeterminate int.                   *)
AllocWeight(c) ==
    /\ ForkAlloc(c)
    /\ \E w \in Indeterminate : weight' = [weight EXCEPT ![child'[c]] = w]
    /\ UNCHANGED <<info, tinfo>>

(* getprocinfo(k): under ptable.lock, the first slot, of any state, whose  *)
(* pid is k gives its fields; none gives pid -1.                          *)
GetProcInfo(k) ==
    LET match == {s \in Slot : pid[s] = k}
    IN  IF match = {} THEN [pid |-> -1, slot |-> 0]
        ELSE LET s == CHOOSE s \in match : FirstIn(s, 1, match)
             IN  [pid |-> pid[s], slot |-> s, weight |-> weight[s]]

(* Mutant of SysGetProcInfo: the call returns the pid it found, not 0.   *)
SysGetProcInfoRetPid(c, k) ==
    LET pinfo == GetProcInfo(k)
    IN  /\ pc[c] = "user"
        /\ lock = NoCpu
        /\ info' = [info EXCEPT ![c] =
              IF pinfo.pid = -1 THEN [ret |-> -1]
              ELSE [ret |-> pinfo.pid, weight |-> pinfo.weight,
                    st |-> state[pinfo.slot], slot |-> pinfo.slot,
                    alive |-> {s \in Slot : pid[s] = k /\ state[s] # "UNUSED"}]]
        /\ UNCHANGED <<vars, weight, tinfo>>

(* sys_getprocinfo(k) from user code: -1 when getprocinfo set pid to -1,  *)
(* else 0 with the record copied out. The fields st and alive observe the *)
(* table at the call: the state of the slot reported, and the live slots   *)
(* whose pid is k.                                                         *)
SysGetProcInfo(c, k) ==
    LET pinfo == GetProcInfo(k)
    IN  /\ pc[c] = "user"
        /\ lock = NoCpu
        /\ info' = [info EXCEPT ![c] =
              IF pinfo.pid = -1 THEN [ret |-> -1]
              ELSE [ret |-> 0, weight |-> pinfo.weight,
                    st |-> state[pinfo.slot], slot |-> pinfo.slot,
                    alive |-> {s \in Slot : pid[s] = k /\ state[s] # "UNUSED"}]]
        /\ UNCHANGED <<vars, weight, tinfo>>

(* gettreeinfo: the run-queue tree's length, total weight and period, read *)
(* without ptable.lock.                                                    *)
GetTreeInfo ==
    [count |-> rbTree.length, total_weight |-> rbTree.total_weight,
     period |-> rbTree.period]

(* sys_gettreeinfo from user code: the three values are copied out and the *)
(* call returns 0.                                                         *)
SysGetTreeInfo(c) ==
    /\ pc[c] = "user"
    /\ tinfo' = [tinfo EXCEPT ![c] = [ret |-> 0, summary |-> GetTreeInfo]]
    /\ UNCHANGED <<vars, weight, info>>

(* Every step of Proc other than allocproc leaves weight and the replies. *)
ProcStep(c) ==
    /\ \/ SchedAcquire(c) \/ Dispatch(c) \/ SchedRelease(c) \/ Sched(c)
       \/ ResumeRelease(c) \/ ResumeWait(c)
       \/ Wait(c) \/ Yield(c) \/ SysSleep(c) \/ Tick(c) \/ Exit(c)
       \/ \E k \in 0..MaxPid : Kill(c, k)
       \/ ForkFail(c) \/ ForkDone(c)
    /\ UNCHANGED infoVars

InfoNext ==
    \E c \in CPU :
        \/ ProcStep(c)
        \/ AllocWeight(c)
        \/ \E k \in 0..MaxPid : SysGetProcInfo(c, k)
        \/ SysGetTreeInfo(c)

InfoSpec == InitInfo /\ [][InfoNext]_allVars

-----------------------------------------------------------------------------
InfoTypeOK ==
    /\ weight \in [Slot -> Indeterminate \cup {0}]
    /\ \A c \in CPU : info[c].ret \in {-2, -1, 0} /\ tinfo[c].ret \in {-2, 0}

(* getprocinfo(k) of the pid of a live process reports that process: no    *)
(* freed slot keeping a stale pid (a failed fork's) and no other live slot *)
(* comes first in the scan. This rests on nextpid never handing out a pid *)
(* twice.                                                                  *)
InfoFindsLive ==
    \A c \in CPU : info[c].ret = 0 => info[c].alive \subseteq {info[c].slot}

(* getprocinfo succeeds only for a pid that names a live process: the     *)
(* NotFound of process_scheduling_info, which test_weights.c relies on.   *)
InfoNamesLive ==
    \A c \in CPU : info[c].ret = 0 => info[c].st # "UNUSED"

(* The weight getprocinfo reports for a live process is at least 1, as    *)
(* the weight derived from nice by compute_weight always is.              *)
WeightPositive ==
    \A c \in CPU : info[c].ret = 0 /\ info[c].st # "UNUSED" => info[c].weight >= 1

=============================================================================
