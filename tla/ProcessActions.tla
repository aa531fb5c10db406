--------------------------- MODULE ProcessActions ---------------------------
(***************************************************************************)
(* The host's processes, and the signals and priorities of                 *)
(* crates/muxtop-core/src/actions.rs.                                      *)
(*                                                                         *)
(* Processes come and go under the monitor.  What the kernel does with the *)
(* children of a process that ends differs between platforms; a pid is     *)
(* used again as soon as it is free.                                       *)
(***************************************************************************)
EXTENDS Integers

CONSTANTS HostPids,   \* the pids the kernel hands out
          PidBits,    \* width of the u32 the user names a process with
          Named,      \* the numbers a user names a process with
          Owned       \* the pids whose process belongs to the user

ASSUME ActionsAssumption ==
  HostPids \subseteq 1..(2^(PidBits - 1) - 1) /\ Named \subseteq 0..(2^PidBits - 1)

VARIABLES host,    \* live pid -> [ppid, nice]; ppid 0 is no parent
          errno,   \* the thread's errno
          last     \* the last action asked for, its result and what was true then

processVars == <<host, errno, last>>

NoAction == [op |-> "none", pid |-> 0, result |-> "ok", value |-> 0, hit |-> {}, truth |-> 0]
Dead     == 99     \* truth: no such process
Nices    == {-1, 0}
EPERM    == 1
ESRCH    == 3

ProcessesInit == host = <<>> /\ errno = 0 /\ last = NoAction

-----------------------------------------------------------------------------
(* The kernel.                                                             *)

Live == DOMAIN host

Fork(parent, pid) ==
  /\ pid \in HostPids \ Live
  /\ parent \in Live \cup {0}
  /\ host' = [p \in Live \cup {pid} |->
                IF p = pid THEN [ppid |-> parent, nice |-> 0] ELSE host[p]]
  /\ UNCHANGED <<errno, last>>

\* Its children keep naming it (heir = pid, Windows), or none of the listed
\* processes any more.
Exit(pid, heir) ==
  /\ pid \in Live
  /\ host' = [p \in Live \ {pid} |->
                IF host[p].ppid = pid THEN [host[p] EXCEPT !.ppid = heir] ELSE host[p]]
  /\ UNCHANGED <<errno, last>>

\* kill(2): a negative or zero argument addresses many processes.
Addressed(p) == IF p > 0 THEN {p} \cap Live ELSE Live

Errno(p) == IF Addressed(p) = {} THEN ESRCH ELSE IF Addressed(p) \subseteq Owned THEN 0 ELSE EPERM

-----------------------------------------------------------------------------
(* actions.rs                                                              *)

\* Mutant: the narrowing to pid_t wraps around.
WrapPid(pid) == IF pid < 2^(PidBits - 1) THEN pid ELSE pid - 2^PidBits

\* validate_pid: the pid_t, or 0 for a pid that is refused.
ValidatePid(pid) == IF pid < 2^(PidBits - 1) THEN pid ELSE 0

\* The error a syscall's errno is reported as.
CoreError(e) ==
  CASE e = ESRCH -> "not_found"
    [] e = EPERM -> "permission"
    [] OTHER       -> "io"

Refused(op, pid) ==
  /\ ValidatePid(pid) = 0
  /\ last' = [NoAction EXCEPT !.op = op, !.pid = pid, !.result = "not_found", !.truth = Dead]
  /\ UNCHANGED <<host, errno>>

\* kill_process: errno counts only when the call failed.
Kill(pid) ==
  LET p == ValidatePid(pid)
      e == Errno(p)
  IN  /\ p # 0
      /\ last' = [NoAction EXCEPT !.op = "kill", !.pid = pid,
                    !.result = IF e = 0 THEN "ok" ELSE CoreError(e),
                    !.hit = IF e = 0 THEN Addressed(p) ELSE {}]
      /\ errno' = IF e = 0 THEN errno ELSE e
      /\ UNCHANGED host

\* renice_process: errno is cleared before the call.
Renice(pid, n) ==
  LET p == ValidatePid(pid)
      e == Errno(p)
  IN  /\ p # 0
      /\ host' = [q \in Live |-> IF e = 0 /\ q = p THEN [host[q] EXCEPT !.nice = n] ELSE host[q]]
      /\ errno' = e
      /\ last' = [NoAction EXCEPT !.op = "renice", !.pid = pid, !.value = n,
                    !.result = IF e = 0 THEN "ok" ELSE CoreError(e),
                    !.hit = IF e = 0 THEN {p} ELSE {},
                    !.truth = IF p \in Live THEN n ELSE Dead]

\* get_process_priority: -1 is a priority as well as the sign of an error, so
\* errno alone decides.  Reading needs no ownership.
GetPriority(pid) ==
  LET p == ValidatePid(pid)
      e == IF p \in Live THEN 0 ELSE ESRCH
  IN  /\ p # 0
      /\ errno' = e
      /\ last' = [NoAction EXCEPT !.op = "get", !.pid = pid,
                    !.result = IF e = 0 THEN "ok" ELSE CoreError(e),
                    !.value = IF p \in Live THEN host[p].nice ELSE -1,
                    !.truth = IF p \in Live THEN host[p].nice ELSE Dead]
      /\ UNCHANGED host

-----------------------------------------------------------------------------

Kernel ==
  \/ \E parent \in Live \cup {0}, pid \in HostPids : Fork(parent, pid)
  \/ \E pid \in Live : \E heir \in {0, pid} : Exit(pid, heir)

Act == \E pid \in Named :
  \/ \E op \in {"kill", "renice", "get"} : Refused(op, pid)
  \/ Kill(pid)
  \/ \E n \in Nices : Renice(pid, n)
  \/ GetPriority(pid)

ProcessesNext == Kernel \/ Act

-----------------------------------------------------------------------------

\* What the user asks for happens to that process or to none: no pid, however
\* large, reaches the process group or everybody, an error means nothing was
\* done, and a priority of -1 is not taken for an error nor an error for -1.
ActionsExact ==
  /\ last.hit \subseteq {last.pid}
  /\ last.op \in {"kill", "renice"} => (last.result = "ok" <=> last.hit # {})
  /\ last.op = "get" => /\ last.result = "ok" => last.value = last.truth
                        /\ last.result = "not_found" <=> last.truth = Dead
=============================================================================
