------------------------------ MODULE Notifier ------------------------------
(***************************************************************************)
(* crates/muxtop-tui/src/notify.rs: the stack of toasts and the log behind *)
(* it.  Toasts expire when somebody looks: on a key (handle_key_event) and *)
(* on an idle tick of the event loop, not by themselves.                   *)
(***************************************************************************)
EXTENDS Integers, Sequences, SequencesExt, FiniteSetsExt

CONSTANTS MaxActive,    \* MAX_ACTIVE
          LogCapacity,  \* LOG_CAPACITY
          TtlInfo, TtlWarning, TtlError,
          MaxPosts,     \* bound: messages posted
          MaxInstant    \* bound: the clock stops here

\* The log outlasts the screen: with the rest of the stack refilled as often as the
\* shortest message allows, the longest one is gone before the log is full.  (The
\* constants of notify.rs: 12 s <= 3 * 4 s and 3 * 2 < 50.)
ASSUME NotifierAssumption ==
  /\ MaxActive \in Nat \ {0} /\ LogCapacity \in Nat \ {0}
  /\ TtlInfo \in Nat /\ TtlWarning \in Nat /\ TtlError \in Nat
  /\ TtlInfo <= TtlWarning /\ TtlWarning <= TtlError
  /\ \E rounds \in 1..LogCapacity :
       rounds * (MaxActive - 1) < LogCapacity /\ TtlError <= rounds * TtlInfo
  /\ MaxPosts \in Nat /\ MaxInstant \in Nat

VARIABLES instant,   \* Instant::now
          active,    \* Notifier.active, oldest first
          log,       \* Notifier.log, newest last
          posts      \* history: messages posted so far; a message is its number

notifierVars == <<instant, active, log, posts>>

NotifierInit == instant = 0 /\ active = <<>> /\ log = <<>> /\ posts = 0

\* Toast::ttl
Ttl(level) ==
  CASE level = "Error"   -> TtlError
    [] level = "Warning" -> IF TtlWarning < TtlError THEN TtlWarning ELSE TtlError
    [] OTHER             -> TtlInfo

IsExpired(t) == instant - t.at >= Ttl(t.level)

LastOf(s, n) == IF Len(s) > n THEN SubSeq(s, Len(s) - n + 1, Len(s)) ELSE s

\* Mutant: the newest message is the one that finds no room.
PostFirstCome(level) ==
  LET toast == [level |-> level, at |-> instant, id |-> posts + 1]
  IN  /\ posts < MaxPosts
      /\ posts' = posts + 1
      /\ log' = LastOf(Append(log, toast), LogCapacity)
      /\ active' = IF Len(active) < MaxActive THEN Append(active, toast) ELSE active
      /\ UNCHANGED instant

\* push: the oldest go, from the screen and from the log.
Post(level) ==
  LET toast == [level |-> level, at |-> instant, id |-> posts + 1]
  IN  /\ posts < MaxPosts
      /\ posts' = posts + 1
      /\ log' = LastOf(Append(log, toast), LogCapacity)
      /\ active' = LastOf(Append(active, toast), MaxActive)
      /\ UNCHANGED instant

\* expire: what is retained of the first n toasts, and of all.
Expired ==
  LET kept[n \in 0..Len(active)] ==
        IF n = 0 THEN <<>>
        ELSE IF IsExpired(active[n]) THEN kept[n - 1] ELSE Append(kept[n - 1], active[n])
  IN  kept[Len(active)]

Expire ==
  /\ active' = Expired
  /\ UNCHANGED <<instant, log, posts>>

\* dismiss_all: Esc, or clearing the log view.
DismissAll ==
  /\ active' = <<>>
  /\ UNCHANGED <<instant, log, posts>>

\* next_deadline: how long until a toast expires; -1 for none.
NextDeadline ==
  LET left(t) == IF IsExpired(t) THEN 0 ELSE Ttl(t.level) - (instant - t.at)
  IN  IF active = <<>> THEN -1 ELSE Min({left(t) : t \in Range(active)})

Later ==
  /\ instant < MaxInstant
  /\ instant' = instant + 1
  /\ UNCHANGED <<active, log, posts>>

NotifierNext ==
  \/ \E level \in {"Info", "Warning", "Error"} : Post(level)
  \/ Expire \/ DismissAll \/ Later

-----------------------------------------------------------------------------

\* The log is the latest messages, in order and without a gap, and as many as it has
\* room for: push drops only the oldest.  The file's header promises more, that
\* nothing is ever lost, which holds until the log is full.
LogLatest ==
  /\ Len(log) <= LogCapacity
  /\ Len(log) = LogCapacity \/ Len(log) = posts
  /\ \A k \in DOMAIN log : log[k].id = posts - Len(log) + k

\* Every toast on screen can be found in the log.  What is on screen is in the
\* order it was posted and ends with the newest message, unless that has expired
\* or was dismissed with everything else.  The deadline is due exactly when a look
\* would drop a toast.
ToastsInLog ==
  /\ LogLatest
  /\ Len(active) <= MaxActive
  /\ \A k \in DOMAIN active :
       /\ active[k] \in Range(log)
       /\ k > 1 => active[k].id > active[k - 1].id
  /\ active # <<>> => active[Len(active)].id = posts
                        \/ \A t \in Range(log) : t.id > active[Len(active)].id => IsExpired(t)
  /\ (NextDeadline = 0) <=> (Expired # active)
=============================================================================
