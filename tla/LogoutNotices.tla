--------------------------- MODULE LogoutNotices ---------------------------
(***************************************************************************)
(* Back-channel logout, as modules/oauth/rp-logout does it: each client    *)
(* that redeemed a code in a session is remembered; the session's close    *)
(* keeps a notice for each; the closing host tries them at once, every     *)
(* host's sweep tries those kept; one that fails is kept to wait under a   *)
(* new time before the old one goes, until it ends.  One session, whose    *)
(* clients are fewer than its set keeps.                                   *)
(*                                                                         *)
(* A notice is the record kept: the client, which making of it (its jti),  *)
(* the time it ends, and the time before which it is not tried again.      *)
(***************************************************************************)
EXTENDS Periodic, FiniteSets, TLC

CONSTANTS
  Client,
  NotifyMs,    \* notify-within
  RetryMs,     \* sweep-interval, the wait after a failed try
  Shards,      \* shards the list of notices is spread over
  ShardOf(_),  \* the shard of each notice
  Horizon,     \* bound: the last time the clock tells
  Loads        \* what may go on: see `load`

ASSUME NoticesAssumption ==
  /\ NotifyMs \in Nat /\ RetryMs \in Nat \ {0} /\ Shards \in Nat \ {0} /\ Horizon \in Nat \ {0}
  /\ \A l \in Loads :
       /\ l.clients \subseteq Client /\ l.serving \subseteq Host /\ l.sweeping \subseteq Host
       /\ l.closings \in Nat /\ l.stops \in Nat /\ l.faults \in Nat

Never == 0   \* a notice's `after` where it never waited
Worker == Host \X {"timer", "request"}
TimerOf(h) == <<h, "timer">>
RequestOf(h) == <<h, "request">>
HostOf(w) == w[1]

VARIABLES
  load,      \* what goes on: clients that redeem, hosts that serve and that sweep, times the
             \* participant is called, stops, and store calls failing or hosts killed; it
             \* never changes
  now,
  members,   \* clients remembered for the session
  entering,  \* the session lets in: not closing, closed or ended
  answered,  \* ghost: clients answered a redemption's tokens
  pending,   \* the notices kept, over all shards
  settled,   \* ghost: clients that took a notice, or whose notice is settled for good
  closings,  \* times the participant was called
  promised,  \* ghost: the end of the notices of the close that finished, or 0
  awaited,   \* deliveries each host's stop hook waits for
  faults,
  job        \* each worker's work under way; `early` (a ghost) a sweep, or a delivery begun
             \* before its host called its stop hook

noticeVars == <<now, members, entering, answered, pending, settled, closings, promised, faults>>
vars == <<load, periodicVars, noticeVars, awaited, job>>

None == [at |-> "none"]
Idle(w) == job[w] = None
At(w, at) == job[w].at = at
Becomes(w, j) == job' = [job EXCEPT ![w] = j]
Goes(w, at) == Becomes(w, [job[w] EXCEPT !.at = at])

Init ==
  /\ load \in Loads
  /\ PeriodicInit
  /\ now = 1 /\ members = {} /\ entering = TRUE /\ answered = {} /\ pending = {} /\ settled = {}
  /\ closings = 0 /\ promised = 0 /\ faults = 0
  /\ awaited = [h \in Host |-> {}]
  /\ job = [w \in Worker |-> None]

(* The store cannot tell; what was asked is not done.                      *)
Fault == faults < load.faults /\ faults' = faults + 1

----------------------------------------------------------------------------
(* A code redeemed in the session: its client is remembered, then the      *)
(* session is asked again, and the tokens answered (code-grant's handle).  *)
BeginRedeem(w) ==
  /\ phase[HostOf(w)] = "up" /\ Idle(w) /\ entering
  /\ \E c \in load.clients \ answered : Becomes(w, [at |-> "redeem.remember", client |-> c])
  /\ UNCHANGED <<periodicVars, noticeVars, awaited>>

RedeemRemember(w) ==
  /\ At(w, "redeem.remember")
  /\ members' = members \cup {job[w].client}
  /\ Goes(w, "redeem.enter")
  /\ UNCHANGED <<periodicVars, awaited, now, entering, answered, pending, settled, closings, promised, faults>>

RedeemEnter(w) ==
  /\ At(w, "redeem.enter")
  /\ answered' = IF entering THEN answered \cup {job[w].client} ELSE answered
  /\ Becomes(w, None)
  /\ UNCHANGED <<periodicVars, awaited, now, members, entering, pending, settled, closings, promised, faults>>

RedeemStep(w) == RedeemRemember(w) \/ RedeemEnter(w)

----------------------------------------------------------------------------
(* The participant in closing, called again until it finished: a notice    *)
(* for each member, kept one by one, then tried without being waited for.  *)
BeginClosing(w) ==
  /\ phase[HostOf(w)] = "up" /\ Idle(w)
  /\ promised = 0 /\ closings < load.closings
  /\ entering' = FALSE /\ closings' = closings + 1
  /\ Becomes(w, [at |-> "close.members", made |-> closings'])
  /\ UNCHANGED <<periodicVars, awaited, now, members, answered, pending, settled, promised, faults>>

CloseMembers(w) ==
  LET until == now + NotifyMs
      made == {[client |-> c, made |-> job[w].made, until |-> until, after |-> Never] : c \in members} IN
  /\ At(w, "close.members")
  /\ until < Horizon
  /\ Becomes(w, [at |-> "close.keep", until |-> until, notices |-> made, todo |-> made])
  /\ UNCHANGED <<periodicVars, noticeVars, awaited>>

CloseKeep(w) ==
  LET j == job[w] IN
  /\ At(w, "close.keep") /\ j.todo # {}
  /\ \E n \in j.todo :
       /\ pending' = pending \cup {n}
       /\ Becomes(w, [j EXCEPT !.todo = @ \ {n}])
  /\ UNCHANGED <<periodicVars, awaited, now, members, entering, answered, settled, closings, promised, faults>>

CloseAnswer(w) ==
  LET j == job[w] IN
  /\ At(w, "close.keep") /\ j.todo = {}
  /\ promised' = IF promised = 0 THEN j.until ELSE promised
  /\ Becomes(w, [at |-> "next", todo |-> j.notices, kept |-> {}, shard |-> Shards,
                 early |-> phase[HostOf(w)] \in {"up", "stopping"}])
  /\ UNCHANGED <<periodicVars, awaited, now, members, entering, answered, pending, settled, closings, faults>>

CloseFails(w) ==
  /\ job[w].at \in {"close.members", "close.keep"} /\ Fault
  /\ Becomes(w, None)
  /\ UNCHANGED <<periodicVars, awaited, now, members, entering, answered, pending, settled, closings, promised>>

CloseStep(w) == CloseMembers(w) \/ CloseKeep(w) \/ CloseAnswer(w)

----------------------------------------------------------------------------
(* A sweep walks the shards; a delivery has its own notices and no shard   *)
(* left.  Either hands each notice on, passing over those it kept itself.  *)
(* A sweep that would find no notice is left out.                          *)
Sweep(h) ==
  /\ Tick(h) /\ pending # {}
  /\ Becomes(TimerOf(h), [at |-> "next", todo |-> {}, kept |-> {}, shard |-> 0, early |-> TRUE])
  /\ UNCHANGED <<noticeVars, awaited>>

NextShard(w) ==
  LET j == job[w] IN
  /\ At(w, "next") /\ j.todo = {} /\ j.shard < Shards
  /\ \/ /\ Becomes(w, [j EXCEPT !.todo = {n \in pending : ShardOf(n) = j.shard}, !.shard = @ + 1])
        /\ UNCHANGED faults
     \/ Becomes(w, [j EXCEPT !.shard = @ + 1]) /\ Fault
  /\ UNCHANGED <<periodicVars, awaited, now, members, entering, answered, pending, settled, closings, promised>>

Over(w) ==
  LET j == job[w] IN
  /\ At(w, "next") /\ j.todo = {} /\ j.shard = Shards
  /\ Becomes(w, None)
  /\ IF w[2] = "timer" THEN RunEnds(HostOf(w)) ELSE UNCHANGED periodicVars
  /\ awaited' = [awaited EXCEPT ![HostOf(w)] = @ \ {w}]
  /\ UNCHANGED noticeVars

Trying(j, n) ==
  [at |-> "post", todo |-> j.todo \ {n}, kept |-> j.kept, shard |-> j.shard, early |-> j.early, notice |-> n]

(* Back to the sweep or the delivery, the notice sent or put off.          *)
Resumed(j, kept) ==
  [at |-> "next", todo |-> j.todo, kept |-> j.kept \cup kept, shard |-> j.shard, early |-> j.early]

(* Sending a notice: one past its end is done with, one waiting is left.   *)
Expired(n) == now > n.until
Waits(n) == now <= n.until /\ now < n.after

(* Broken: a notice is tried whatever its end.                             *)
SendWhenever(w) ==
  LET j == job[w] IN
  /\ At(w, "next")
  /\ \E n \in j.todo :
       Becomes(w, IF n \in j.kept \/ now < n.after THEN [j EXCEPT !.todo = @ \ {n}]
                  ELSE Trying(j, n))
  /\ UNCHANGED <<periodicVars, noticeVars, awaited>>

Send(w) ==
  LET j == job[w] IN
  /\ At(w, "next")
  /\ \E n \in j.todo :
       \/ /\ n \notin j.kept /\ Expired(n)
          /\ Becomes(w, [j EXCEPT !.todo = @ \ {n}])
          /\ \/ pending' = pending \ {n} /\ UNCHANGED faults
             \/ Fault /\ UNCHANGED pending
       \/ /\ n \in j.kept \/ Waits(n)
          /\ Becomes(w, [j EXCEPT !.todo = @ \ {n}])
          /\ UNCHANGED <<pending, faults>>
       \/ /\ n \notin j.kept /\ ~Expired(n) /\ ~Waits(n)
          /\ Becomes(w, Trying(j, n))
          /\ UNCHANGED <<pending, faults>>
  /\ UNCHANGED <<periodicVars, awaited, now, members, entering, answered, settled, closings, promised>>

(* One try: taken, or settled for good (refused, or no longer registered); *)
(* or the client is busy, or its answer is lost though it took the notice. *)
SendPost(w) ==
  LET j == job[w] IN
  /\ At(w, "post")
  /\ \/ Goes(w, "settle") /\ settled' = settled \cup {j.notice.client}
     \/ Goes(w, "later.add") /\ settled' = settled \cup {j.notice.client}
     \/ Goes(w, "later.add") /\ UNCHANGED settled
  /\ UNCHANGED <<periodicVars, awaited, now, members, entering, answered, pending, closings, promised, faults>>

(* A failure here is one to try again.                                     *)
SendSettle(w) ==
  LET j == job[w] IN
  /\ At(w, "settle")
  /\ \/ pending' = pending \ {j.notice} /\ Becomes(w, Resumed(j, {})) /\ UNCHANGED faults
     \/ Goes(w, "later.add") /\ Fault /\ UNCHANGED pending
  /\ UNCHANGED <<periodicVars, awaited, now, members, entering, answered, settled, closings, promised>>

(* Its time is read from the notice alone, so hosts that fail it at once   *)
(* keep the same one.                                                      *)
Later(n) ==
  [n EXCEPT !.after = (IF n.after = Never THEN n.until - NotifyMs ELSE n.after) + RetryMs]

(* Broken: the old one goes though the new one could not be kept.          *)
LaterAddAnyway(w) ==
  LET j == job[w] IN
  /\ At(w, "later.add")
  /\ Goes(w, "later.done")
  /\ \/ pending' = pending \cup {Later(j.notice)} /\ UNCHANGED faults
     \/ Fault /\ UNCHANGED pending
  /\ UNCHANGED <<periodicVars, awaited, now, members, entering, answered, settled, closings, promised>>

LaterAdd(w) ==
  LET j == job[w] IN
  /\ At(w, "later.add")
  /\ \/ pending' = pending \cup {Later(j.notice)} /\ Goes(w, "later.done") /\ UNCHANGED faults
     \/ Becomes(w, Resumed(j, {})) /\ Fault /\ UNCHANGED pending
  /\ UNCHANGED <<periodicVars, awaited, now, members, entering, answered, settled, closings, promised>>

LaterDone(w) ==
  LET j == job[w] IN
  /\ At(w, "later.done")
  /\ \/ /\ pending' = pending \ {j.notice}
        /\ Becomes(w, Resumed(j, {Later(j.notice)}))
        /\ UNCHANGED faults
     \/ Becomes(w, Resumed(j, {})) /\ Fault /\ UNCHANGED pending
  /\ UNCHANGED <<periodicVars, awaited, now, members, entering, answered, settled, closings, promised>>

SendStep(w) ==
  Send(w) \/ SendPost(w) \/ SendSettle(w) \/ LaterAdd(w) \/ LaterDone(w)

----------------------------------------------------------------------------
Delivering(w) == job[w].at \in {"next", "post", "settle", "later.add", "later.done"}

(* Broken: the hooks are called without waiting for the tasks.             *)
StopHookAtOnce(h) ==
  /\ To(h, {"stopping"}, "hook") /\ UNCHANGED <<current, restarts>>
  /\ awaited' = [awaited EXCEPT ![h] = {w \in {RequestOf(h)} : Delivering(w)}]
  /\ UNCHANGED <<noticeVars, job>>

(* The stop hook waits for the deliveries under way as it is called.       *)
StopHook(h) ==
  /\ TasksEnded(h)
  /\ awaited' = [awaited EXCEPT ![h] = {w \in {RequestOf(h)} : Delivering(w)}]
  /\ UNCHANGED <<noticeVars, job>>

StopStep(h) ==
  \/ StopBegins(h) /\ restarts < load.stops /\ UNCHANGED <<noticeVars, awaited, job>>
  \/ StopHook(h)
  \/ HookEnded(h) /\ awaited[h] = {} /\ UNCHANGED <<noticeVars, awaited, job>>
  \/ Deadline(h) /\ UNCHANGED <<noticeVars, awaited, job>>

(* What the host was doing is never gone on with.                          *)
ProcessEnds(h) ==
  /\ Ends(h) /\ UNCHANGED restarts
  /\ IF phase[h] \in {"stopped", "late"} THEN UNCHANGED faults ELSE Fault
  /\ job' = [w \in Worker |-> IF HostOf(w) = h THEN None ELSE job[w]]
  /\ awaited' = [awaited EXCEPT ![h] = {}]
  /\ UNCHANGED <<now, members, entering, answered, pending, settled, closings, promised>>

Restarts(h) == Starts(h) /\ UNCHANGED <<noticeVars, awaited, job>>

Passes ==
  /\ now < Horizon /\ now' = now + 1
  /\ UNCHANGED <<periodicVars, members, entering, answered, pending, settled, closings, promised, faults, awaited, job>>

Work(w) == RedeemStep(w) \/ CloseStep(w) \/ NextShard(w) \/ Over(w) \/ SendStep(w)

Next ==
  /\ \/ \E w \in Worker : Work(w) \/ CloseFails(w)
     \/ \E h \in load.serving : BeginRedeem(RequestOf(h)) \/ BeginClosing(RequestOf(h))
     \/ \E h \in load.sweeping : Sweep(h)
     \/ \E h \in load.serving \cup load.sweeping : StopStep(h) \/ ProcessEnds(h) \/ Restarts(h)
     \/ Passes
  /\ UNCHANGED load

Spec == Init /\ [][Next]_vars

(* Calls come back, time passes, a host that is up ticks, and one that     *)
(* stopped is stopped for good and started again.                          *)
FairSpec ==
  /\ Spec
  /\ WF_vars(Passes /\ UNCHANGED load)
  /\ \A w \in Worker : WF_vars(Work(w) /\ UNCHANGED load)
  /\ \A h \in Host :
       /\ WF_vars(h \in load.sweeping /\ Sweep(h) /\ UNCHANGED load)
       /\ WF_vars(phase[h] # "up" /\ (StopStep(h) \/ ProcessEnds(h) \/ Restarts(h)) /\ UNCHANGED load)

----------------------------------------------------------------------------
Notice ==
  [client : load.clients, made : 1 .. load.closings, until : 1 .. Horizon, after : Never .. Horizon + RetryMs]

TypeOK ==
  /\ load \in Loads /\ PeriodicTypeOK
  /\ now \in 1 .. Horizon /\ entering \in BOOLEAN
  /\ members \subseteq Client /\ answered \subseteq members /\ settled \subseteq Client
  /\ pending \subseteq Notice
  /\ closings \in 0 .. load.closings /\ promised \in 0 .. Horizon /\ faults \in 0 .. load.faults
  /\ \A h \in Host : awaited[h] \subseteq {w \in Worker : HostOf(w) = h}
  /\ \A h \in Host : current[h] <=> ~Idle(TimerOf(h))
  /\ \A w \in Worker : phase[HostOf(w)] = "down" => Idle(w)

(* Once the participant finished, every client the session's redemptions   *)
(* answered hears of the close: it has, its notice is settled, or a notice *)
(* is kept for it until the end it was given, whatever stopped or failed,  *)
(* whichever hosts put one off at once, and though the client redeemed     *)
(* while the session closed (notices.ts later, "never none"; code-grant's  *)
(* order of remembering and entering).                                     *)
NoneForgotten ==
  promised # 0 =>
    \A c \in answered :
      c \in settled \/ now > promised \/ \E n \in pending : n.client = c /\ n.until >= promised

(* A host whose stop came back in time runs no sweep, and no delivery      *)
(* begun before the stop hook was called: ending its process then cuts     *)
(* none of them short (stop.ts, every.ts stop, rp-logout's onStop).        *)
StoppedIsQuiet ==
  \A w \in Worker : phase[HostOf(w)] = "stopped" /\ Delivering(w) => ~job[w].early

(* Every notice ends: taken, settled, or past its end and swept away,      *)
(* though hosts stop, are killed and put it off together, where some host  *)
(* sweeps.                                                                 *)
NoticesEnd == (load.sweeping # {} /\ pending # {}) ~> (pending = {})
=============================================================================
