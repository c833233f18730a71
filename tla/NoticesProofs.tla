---------------------------- MODULE NoticesProofs ----------------------------
(***************************************************************************)
(* What the run of MCLogoutNotices shows for two hosts and two clients,    *)
(* proved for any hosts, clients, shards, times and loads: that no client  *)
(* the session answered is forgotten by its close, and that a host which   *)
(* stopped in time runs neither a sweep nor a delivery it should have      *)
(* waited for.                                                             *)
(***************************************************************************)
EXTENDS LogoutNotices, TLAPS

Tries == {"post", "settle", "later.add", "later.done"}
Sends == {"next"} \cup Tries

(* Notices as they are kept: made at a time the clock told.                *)
Dated == {n \in Notice : n.until \in NotifyMs + 1 .. NotifyMs + Horizon}

Jobs ==
  {None}
  \cup [at : {"redeem.remember", "redeem.enter"}, client : load.clients]
  \cup [at : {"close.members"}, made : 1 .. load.closings]
  \cup [at : {"close.keep"}, until : 1 .. Horizon, notices : SUBSET Dated, todo : SUBSET Dated]
  \cup [at : {"next"}, todo : SUBSET Dated, kept : SUBSET Dated, shard : 0 .. Shards, early : BOOLEAN]
  \cup [at : Tries, todo : SUBSET Dated, kept : SUBSET Dated, shard : 0 .. Shards, early : BOOLEAN, notice : Dated]

(* A worker's job: a host's timer only sweeps, and none works that is      *)
(* down; a client is remembered before its code is answered; and what is   *)
(* tried does not wait any more.                                           *)
JobFine(w, j) ==
  /\ j \in Jobs
  /\ w[2] = "timer" => j.at \in Sends \cup {"none"}
  /\ phase[HostOf(w)] = "down" => j = None
  /\ j.at = "redeem.enter" => j.client \in members
  /\ j.at \in Tries => j.notice.after <= now

StoreFine ==
  /\ now \in 1 .. Horizon /\ entering \in BOOLEAN
  /\ members \subseteq load.clients /\ answered \subseteq members /\ settled \subseteq Client
  /\ pending \subseteq Dated
  /\ closings \in 0 .. load.closings /\ promised \in 0 .. Horizon /\ faults \in 0 .. load.faults

HostsFine ==
  /\ PeriodicTypeOK
  /\ awaited \in [Host -> SUBSET Worker] /\ \A h \in Host : awaited[h] \subseteq {w \in Worker : HostOf(w) = h}
  /\ \A h \in Host : current[h] <=> job[TimerOf(h)] # None

TInv ==
  /\ load \in Loads /\ StoreFine /\ HostsFine
  /\ DOMAIN job = Worker /\ \A w \in Worker : JobFine(w, job[w])

----------------------------------------------------------------------------
LEMMA LoadFine ==
  ASSUME TInv
  PROVE  /\ NotifyMs \in Nat /\ RetryMs \in Nat \ {0} /\ Shards \in Nat \ {0} /\ Horizon \in Nat
         /\ load.clients \subseteq Client /\ load.serving \subseteq Host /\ load.sweeping \subseteq Host
         /\ load.closings \in Nat /\ load.stops \in Nat /\ load.faults \in Nat
BY NoticesAssumption DEF TInv

LEMMA Workers ==
  /\ \A h \in Host : TimerOf(h) \in Worker /\ RequestOf(h) \in Worker
                     /\ HostOf(TimerOf(h)) = h /\ HostOf(RequestOf(h)) = h
                     /\ TimerOf(h)[2] = "timer" /\ RequestOf(h)[2] = "request"
  /\ \A w \in Worker : HostOf(w) \in Host /\ w[2] \in {"timer", "request"}
                       /\ (w[2] = "timer" => w = TimerOf(HostOf(w)))
                       /\ (w[2] = "request" => w = RequestOf(HostOf(w)))
BY DEF Worker, TimerOf, RequestOf, HostOf

LEMMA NoneIs ==
  ASSUME NEW j \in Jobs
  PROVE  j.at = "none" <=> j = None
BY DEF Jobs, None, Tries

(* The jobs by where they are.                                             *)
LEMMA JobAt ==
  ASSUME NEW j \in Jobs
  PROVE  /\ j.at \in {"redeem.remember", "redeem.enter"} =>
              j \in [at : {"redeem.remember", "redeem.enter"}, client : load.clients]
         /\ j.at = "close.members" => j \in [at : {"close.members"}, made : 1 .. load.closings]
         /\ j.at = "close.keep" =>
              j \in [at : {"close.keep"}, until : 1 .. Horizon, notices : SUBSET Dated, todo : SUBSET Dated]
         /\ j.at = "next" =>
              j \in [at : {"next"}, todo : SUBSET Dated, kept : SUBSET Dated, shard : 0 .. Shards, early : BOOLEAN]
         /\ j.at \in Tries =>
              j \in [at : Tries, todo : SUBSET Dated, kept : SUBSET Dated, shard : 0 .. Shards, early : BOOLEAN, notice : Dated]
<1>1. "none" \notin Tries /\ "next" \notin Tries /\ "close.keep" \notin Tries /\ "close.members" \notin Tries
      /\ "redeem.remember" \notin Tries /\ "redeem.enter" \notin Tries
  BY DEF Tries
<1>2. None.at = "none"
  BY DEF None
<1>3. QED
  BY <1>1, <1>2 DEF Jobs

(* What a step of one worker makes of its job.                             *)
LEMMA JobStep ==
  ASSUME TInv, NEW w \in Worker, NEW j, Becomes(w, j), JobFine(w, j) \/ JobFine(w, j)',
         UNCHANGED <<load, periodicVars, now, awaited>>,
         w[2] = "timer" => (j = None <=> job[w] = None),
         StoreFine', members \subseteq members'
  PROVE  TInv'
<1>1. job'[w] = j /\ DOMAIN job' = Worker /\ \A v \in Worker \ {w} : job'[v] = job[v]
  BY DEF Becomes, TInv
<1>2. Jobs' = Jobs
  BY DEF Jobs, Dated, Notice
<1>3. ASSUME NEW v \in Worker, NEW i, JobFine(v, i) PROVE JobFine(v, i)'
  BY <1>2, <1>3 DEF JobFine, periodicVars
<1>4. ASSUME NEW v \in Worker PROVE JobFine(v, job[v])'
  <2>1. PICK i : i = job'[v]
    OBVIOUS
  <2>2. v # w => JobFine(v, i)
    BY <1>1, <2>1 DEF TInv
  <2>3. JobFine(v, i)'
    BY <1>1, <1>3, <2>1, <2>2
  <2>4. QED
    BY <2>1, <2>3 DEF JobFine
<1>5. ASSUME NEW h \in Host PROVE (job'[TimerOf(h)] = None) <=> (job[TimerOf(h)] = None)
  BY <1>1, Workers
<1>6. HostsFine'
  BY <1>5 DEF HostsFine, PeriodicTypeOK, periodicVars, TInv
<1>7. QED
  BY <1>1, <1>4, <1>6 DEF TInv

LEMMA SameStore ==
  ASSUME TInv, UNCHANGED <<load, noticeVars>>
  PROVE  StoreFine'
BY DEF TInv, StoreFine, noticeVars, Dated, Notice

LEMMA NoneFine == ASSUME NEW w, w \in Worker PROVE JobFine(w, None)
BY DEF JobFine, Jobs, None, Tries

LEMMA FaultFine == ASSUME TInv, load' = load, (faults' = faults \/ Fault) PROVE faults' \in 0 .. load'.faults
<1>1. faults \in 0 .. load.faults /\ load.faults \in Nat
  BY LoadFine DEF TInv, StoreFine
<1>2. QED
  BY <1>1 DEF Fault

----------------------------------------------------------------------------
LEMMA StoreStep ==
  ASSUME TInv, UNCHANGED <<load, now>>, entering' \in {entering, FALSE},
         members \subseteq members', members' \subseteq load.clients, answered' \subseteq members', settled' \subseteq Client,
         pending' \subseteq Dated, closings' \in 0 .. load.closings, promised' \in 0 .. Horizon,
         (faults' = faults \/ Fault)
  PROVE  StoreFine'
<1>1. Dated' = Dated
  BY DEF Dated, Notice
<1>2. faults' \in 0 .. load'.faults
  BY FaultFine
<1>3. now \in 1 .. Horizon /\ entering \in BOOLEAN
  BY DEF TInv, StoreFine
<1>4. QED
  BY <1>1, <1>2, <1>3 DEF StoreFine

LEMMA RedeemTyped ==
  ASSUME TInv, NEW w \in Worker, load' = load,
         RedeemStep(w) \/ \E h \in load.serving : w = RequestOf(h) /\ BeginRedeem(w)
  PROVE  TInv'
<1>1. PICK t : t = job[w]
  OBVIOUS
<1>2. JobFine(w, t) /\ t \in Jobs /\ w[2] \in {"timer", "request"}
  BY <1>1, Workers DEF TInv, JobFine
<1>3. CASE \E h \in load.serving : w = RequestOf(h) /\ BeginRedeem(w)
  <2>1. w[2] = "request" /\ phase[HostOf(w)] = "up"
    BY <1>3, LoadFine, Workers DEF BeginRedeem
  <2>2. PICK c \in load.clients \ answered : Becomes(w, [at |-> "redeem.remember", client |-> c])
    BY <1>3 DEF BeginRedeem
  <2>3. PICK j : j = [at |-> "redeem.remember", client |-> c]
    OBVIOUS
  <2>4. JobFine(w, j)
    BY <2>1, <2>2, <2>3 DEF JobFine, Jobs, Tries
  <2>5. UNCHANGED <<noticeVars, periodicVars, awaited>>
    BY <1>3 DEF BeginRedeem
  <2>6. QED
    BY <2>1, <2>2, <2>3, <2>4, <2>5, SameStore, JobStep DEF noticeVars
<1>4. CASE RedeemRemember(w)
  <2>1. t.at = "redeem.remember"
    BY <1>1, <1>4 DEF RedeemRemember, At
  <2>2. t \in [at : {"redeem.remember", "redeem.enter"}, client : load.clients]
    BY <1>2, <2>1, JobAt
  <2>3. w[2] # "timer" /\ phase[HostOf(w)] # "down"
    BY <1>2, <2>1 DEF JobFine, Sends, Tries, None
  <2>4. PICK j : j = [t EXCEPT !.at = "redeem.enter"]
    OBVIOUS
  <2>5. j \in [at : {"redeem.remember", "redeem.enter"}, client : load.clients] /\ j.at = "redeem.enter"
    BY <2>2, <2>4
  <2>6. j.client = t.client
    BY <2>2, <2>4
  <2>7. /\ Becomes(w, j) /\ members' = members \cup {t.client}
        /\ UNCHANGED <<periodicVars, awaited, now, entering, answered, pending, settled, closings, promised, faults>>
    BY <1>1, <1>4, <2>4 DEF RedeemRemember, Goes
  <2>8. StoreFine'
    BY <2>2, <2>7, StoreStep DEF TInv, StoreFine
  <2>9. JobFine(w, j)'
    BY <2>3, <2>5, <2>6, <2>7 DEF JobFine, Jobs, Tries, periodicVars
  <2>10. QED
    BY <2>3, <2>7, <2>8, <2>9, JobStep
<1>5. CASE RedeemEnter(w)
  <2>1. t.at = "redeem.enter"
    BY <1>1, <1>5 DEF RedeemEnter, At
  <2>2. w[2] # "timer"
    BY <1>2, <2>1 DEF JobFine, Sends, Tries
  <2>3. UNCHANGED <<periodicVars, awaited, now, members, entering, pending, settled, closings, promised, faults>>
        /\ Becomes(w, None)
    BY <1>5 DEF RedeemEnter
  <2>4. answered' \subseteq members
    BY <1>1, <1>2, <1>5, <2>1 DEF RedeemEnter, JobFine, TInv, StoreFine
  <2>5. StoreFine'
    BY <2>3, <2>4, StoreStep DEF TInv, StoreFine
  <2>6. QED
    BY <2>2, <2>3, <2>5, NoneFine, JobStep
<1>6. QED
  BY <1>3, <1>4, <1>5 DEF RedeemStep

----------------------------------------------------------------------------
LEMMA CloseTyped ==
  ASSUME TInv, NEW w \in Worker, load' = load,
         CloseStep(w) \/ CloseFails(w) \/ \E h \in load.serving : w = RequestOf(h) /\ BeginClosing(w)
  PROVE  TInv'
<1>1. PICK t : t = job[w]
  OBVIOUS
<1>2. JobFine(w, t) /\ t \in Jobs
  BY <1>1 DEF TInv, JobFine
<1>3. now \in 1 .. Horizon /\ closings \in 0 .. load.closings /\ load.closings \in Nat /\ NotifyMs \in Nat /\ Horizon \in Nat
  BY LoadFine DEF TInv, StoreFine
<1>4. CASE \E h \in load.serving : w = RequestOf(h) /\ BeginClosing(w)
  <2>1. w[2] = "request" /\ phase[HostOf(w)] = "up"
    BY <1>4, LoadFine, Workers DEF BeginClosing
  <2>2. PICK n, j : n = closings + 1 /\ j = [at |-> "close.members", made |-> n]
    OBVIOUS
  <2>3. /\ closings < load.closings /\ closings' = n /\ entering' = FALSE /\ Becomes(w, j)
        /\ UNCHANGED <<periodicVars, awaited, now, members, answered, pending, settled, promised, faults>>
    BY <1>4, <2>2 DEF BeginClosing
  <2>4. n \in 1 .. load.closings
    BY <1>3, <2>2, <2>3
  <2>5. JobFine(w, j)
    BY <2>1, <2>2, <2>4 DEF JobFine, Jobs, Tries
  <2>6. closings' \in 0 .. load.closings
    BY <1>3, <2>3, <2>4
  <2>7. StoreFine'
    BY <2>3, <2>6, StoreStep DEF TInv, StoreFine
  <2>8. QED
    BY <2>1, <2>3, <2>5, <2>7, JobStep
<1>5. ASSUME t.at \in {"close.members", "close.keep"} PROVE w[2] # "timer" /\ phase[HostOf(w)] # "down"
  BY <1>2, <1>5 DEF JobFine, Sends, Tries, None
<1>6. CASE CloseFails(w)
  <2>1. /\ t.at \in {"close.members", "close.keep"} /\ Becomes(w, None) /\ Fault
        /\ UNCHANGED <<periodicVars, awaited, now, members, entering, answered, pending, settled, closings, promised>>
    BY <1>1, <1>6 DEF CloseFails
  <2>2. StoreFine'
    BY <2>1, StoreStep DEF TInv, StoreFine
  <2>3. QED
    BY <1>5, <2>1, <2>2, NoneFine, JobStep
<1>7. CASE CloseMembers(w)
  <2>1. t.at = "close.members"
    BY <1>1, <1>7 DEF CloseMembers, At
  <2>2. t.made \in 1 .. load.closings
    BY <1>2, <2>1, JobAt
  <2>3. PICK until, made, j :
          /\ until = now + NotifyMs
          /\ made = {[client |-> c, made |-> t.made, until |-> until, after |-> Never] : c \in members}
          /\ j = [at |-> "close.keep", until |-> until, notices |-> made, todo |-> made]
    OBVIOUS
  <2>4. until < Horizon /\ Becomes(w, j) /\ UNCHANGED <<periodicVars, noticeVars, awaited>>
    BY <1>1, <1>7, <2>3 DEF CloseMembers
  <2>5. until \in 1 .. Horizon /\ until \in NotifyMs + 1 .. NotifyMs + Horizon /\ Never \in Never .. Horizon + RetryMs
    BY <1>3, <2>3, <2>4, LoadFine DEF Never
  <2>6. ASSUME NEW c \in members
        PROVE  [client |-> c, made |-> t.made, until |-> until, after |-> Never] \in Dated
    BY <2>2, <2>5 DEF Dated, Notice, TInv, StoreFine
  <2>7. made \in SUBSET Dated
    BY <2>3, <2>6
  <2>8. j \in Jobs
    BY <2>3, <2>5, <2>7 DEF Jobs
  <2>9. JobFine(w, j)
    BY <1>5, <2>1, <2>3, <2>8 DEF JobFine, Tries
  <2>10. QED
    BY <1>5, <2>1, <2>4, <2>9, SameStore, JobStep DEF noticeVars
<1>8. CASE CloseKeep(w)
  <2>1. t.at = "close.keep"
    BY <1>1, <1>8 DEF CloseKeep, At
  <2>2. t \in [at : {"close.keep"}, until : 1 .. Horizon, notices : SUBSET Dated, todo : SUBSET Dated]
    BY <1>2, <2>1, JobAt
  <2>3. PICK n \in t.todo : pending' = pending \cup {n} /\ Becomes(w, [t EXCEPT !.todo = @ \ {n}])
    BY <1>1, <1>8 DEF CloseKeep
  <2>4. PICK j : j = [t EXCEPT !.todo = @ \ {n}]
    OBVIOUS
  <2>5. j \in [at : {"close.keep"}, until : 1 .. Horizon, notices : SUBSET Dated, todo : SUBSET Dated]
    BY <2>2, <2>4
  <2>6. JobFine(w, j)
    BY <1>5, <2>1, <2>5 DEF JobFine, Jobs, Tries
  <2>7. UNCHANGED <<periodicVars, awaited, now, members, entering, answered, settled, closings, promised, faults>>
    BY <1>8 DEF CloseKeep
  <2>8. pending' \subseteq Dated
    BY <2>2, <2>3 DEF TInv, StoreFine
  <2>9. StoreFine'
    BY <2>7, <2>8, StoreStep DEF TInv, StoreFine
  <2>10. QED
    BY <1>5, <2>1, <2>3, <2>4, <2>6, <2>7, <2>9, JobStep
<1>9. CASE CloseAnswer(w)
  <2>1. t.at = "close.keep"
    BY <1>1, <1>9 DEF CloseAnswer, At
  <2>2. t \in [at : {"close.keep"}, until : 1 .. Horizon, notices : SUBSET Dated, todo : SUBSET Dated]
    BY <1>2, <2>1, JobAt
  <2>3. PICK early, j :
          /\ early = (phase[HostOf(w)] \in {"up", "stopping"})
          /\ j = [at |-> "next", todo |-> t.notices, kept |-> {}, shard |-> Shards, early |-> early]
    OBVIOUS
  <2>4. /\ Becomes(w, j) /\ promised' = (IF promised = 0 THEN t.until ELSE promised)
        /\ UNCHANGED <<periodicVars, awaited, now, members, entering, answered, pending, settled, closings, faults>>
    BY <1>1, <1>9, <2>3 DEF CloseAnswer
  <2>5. early \in BOOLEAN /\ Shards \in 0 .. Shards /\ {} \in SUBSET Dated
    BY <2>3, LoadFine
  <2>6. j \in [at : {"next"}, todo : SUBSET Dated, kept : SUBSET Dated, shard : 0 .. Shards, early : BOOLEAN]
    BY <2>2, <2>3, <2>5
  <2>7. JobFine(w, j)
    BY <1>5, <2>1, <2>6 DEF JobFine, Jobs, Tries
  <2>8. promised' \in 0 .. Horizon
    BY <2>2, <2>4 DEF TInv, StoreFine
  <2>9. StoreFine'
    BY <2>4, <2>8, StoreStep DEF TInv, StoreFine
  <2>10. QED
    BY <1>5, <2>1, <2>4, <2>7, <2>9, JobStep
<1>10. QED
  BY <1>4, <1>6, <1>7, <1>8, <1>9 DEF CloseStep


----------------------------------------------------------------------------
LEMMA NextFine ==
  ASSUME NEW w \in Worker, phase[HostOf(w)] # "down",
         NEW j \in [at : {"next"}, todo : SUBSET Dated, kept : SUBSET Dated, shard : 0 .. Shards, early : BOOLEAN]
  PROVE  JobFine(w, j) /\ j # None
BY DEF JobFine, Jobs, Sends, Tries, None

LEMMA TryFine ==
  ASSUME NEW w \in Worker, phase[HostOf(w)] # "down",
         NEW j \in [at : Tries, todo : SUBSET Dated, kept : SUBSET Dated, shard : 0 .. Shards, early : BOOLEAN, notice : Dated],
         j.notice.after <= now
  PROVE  JobFine(w, j) /\ j # None
<1>1. j \in Jobs
  BY DEF Jobs
<1>2. j.at \in Tries
  OBVIOUS
<1>3. QED
  BY <1>1, <1>2 DEF JobFine, Sends, Tries, None

(* A notice put off stays one that is kept.                                *)
LEMMA LaterFine ==
  ASSUME TInv, NEW n \in Dated, n.after <= now
  PROVE  /\ Later(n) \in Dated /\ Later(n).client = n.client /\ Later(n).until = n.until
         /\ Later(n).after > n.after
<1>1. NotifyMs \in Nat /\ RetryMs \in Nat \ {0} /\ Horizon \in Nat /\ now \in 1 .. Horizon
  BY LoadFine DEF TInv, StoreFine
<1>2. n.until \in 1 .. Horizon /\ n.until \in NotifyMs + 1 .. NotifyMs + Horizon /\ n.after \in 0 .. Horizon + RetryMs
  BY DEF Dated, Notice, Never
<1>3. PICK a : a = (IF n.after = Never THEN n.until - NotifyMs ELSE n.after) + RetryMs
  OBVIOUS
<1>4. a \in 0 .. Horizon + RetryMs /\ a > n.after
  BY <1>1, <1>2, <1>3 DEF Never
<1>5. n \in [client : load.clients, made : 1 .. load.closings, until : 1 .. Horizon, after : 0 .. Horizon + RetryMs]
  BY DEF Dated, Notice, Never
<1>6. Later(n) = [n EXCEPT !.after = a]
  BY <1>3 DEF Later
<1>7. Later(n) \in Notice /\ Later(n).until = n.until /\ Later(n).client = n.client /\ Later(n).after = a
  BY <1>4, <1>5, <1>6 DEF Notice, Never
<1>8. QED
  BY <1>2, <1>4, <1>7 DEF Dated

LEMMA SendsBusy ==
  ASSUME TInv, NEW w \in Worker, job[w].at \in Sends
  PROVE  /\ job[w] # None /\ phase[HostOf(w)] # "down"
         /\ job[w].at = "next" =>
              job[w] \in [at : {"next"}, todo : SUBSET Dated, kept : SUBSET Dated, shard : 0 .. Shards, early : BOOLEAN]
         /\ job[w].at \in Tries =>
              /\ job[w] \in [at : Tries, todo : SUBSET Dated, kept : SUBSET Dated, shard : 0 .. Shards, early : BOOLEAN, notice : Dated]
              /\ job[w].notice.after <= now
<1>1. job[w] \in Jobs /\ JobFine(w, job[w])
  BY DEF TInv, JobFine
<1>2. job[w] # None
  BY DEF None, Sends, Tries
<1>3. QED
  BY <1>1, <1>2, JobAt DEF JobFine

(* What a step of a sweep or a delivery makes of its job.                  *)
LEMMA SendJobStep ==
  ASSUME TInv, NEW w \in Worker, NEW j, Becomes(w, j), job[w].at \in Sends, JobFine(w, j) /\ j # None,
         UNCHANGED <<load, periodicVars, now, awaited, members, entering, answered, closings, promised>>,
         settled' \subseteq Client, pending' \subseteq Dated, (faults' = faults \/ Fault)
  PROVE  TInv'
<1>1. StoreFine'
  BY StoreStep DEF TInv, StoreFine
<1>2. QED
  BY <1>1, SendsBusy, JobStep

LEMMA SendTyped ==
  ASSUME TInv, NEW w \in Worker, load' = load, NextShard(w) \/ SendStep(w)
  PROVE  TInv'
<1>1. PICK t : t = job[w]
  OBVIOUS
<1>2. t.at \in Sends
  BY <1>1 DEF NextShard, SendStep, Send, SendPost, SendSettle, LaterAdd, LaterDone, At, Sends, Tries
<1>3. /\ t # None /\ phase[HostOf(w)] # "down"
      /\ t.at = "next" =>
           t \in [at : {"next"}, todo : SUBSET Dated, kept : SUBSET Dated, shard : 0 .. Shards, early : BOOLEAN]
      /\ t.at \in Tries =>
           /\ t \in [at : Tries, todo : SUBSET Dated, kept : SUBSET Dated, shard : 0 .. Shards, early : BOOLEAN, notice : Dated]
           /\ t.notice.after <= now
  BY <1>1, <1>2, SendsBusy
<1>4. pending \subseteq Dated /\ settled \subseteq Client
  BY DEF TInv, StoreFine
<1>5. CASE NextShard(w)
  <2>1. t \in [at : {"next"}, todo : SUBSET Dated, kept : SUBSET Dated, shard : 0 .. Shards, early : BOOLEAN]
        /\ t.shard < Shards
    BY <1>1, <1>3, <1>5 DEF NextShard, At
  <2>2. PICK j : /\ Becomes(w, j) /\ (faults' = faults \/ Fault)
                 /\ \/ j = [t EXCEPT !.todo = {n \in pending : ShardOf(n) = t.shard}, !.shard = @ + 1]
                    \/ j = [t EXCEPT !.shard = @ + 1]
    BY <1>1, <1>5 DEF NextShard
  <2>3. t.shard + 1 \in 0 .. Shards /\ {n \in pending : ShardOf(n) = t.shard} \in SUBSET Dated
    BY <1>4, <2>1, LoadFine
  <2>4. j \in [at : {"next"}, todo : SUBSET Dated, kept : SUBSET Dated, shard : 0 .. Shards, early : BOOLEAN]
    BY <2>1, <2>2, <2>3
  <2>5. UNCHANGED <<periodicVars, awaited, now, members, entering, answered, pending, settled, closings, promised>>
    BY <1>5 DEF NextShard
  <2>6. JobFine(w, j) /\ j # None
    BY <1>3, <2>4, NextFine
  <2>7. Becomes(w, j) /\ (faults' = faults \/ Fault) /\ pending' \subseteq Dated /\ settled' \subseteq Client
    BY <1>4, <2>2, <2>5
  <2>8. QED
    BY <1>1, <1>2, <2>5, <2>6, <2>7, SendJobStep
<1>6. CASE Send(w)
  <2>1. t \in [at : {"next"}, todo : SUBSET Dated, kept : SUBSET Dated, shard : 0 .. Shards, early : BOOLEAN]
    BY <1>1, <1>3, <1>6 DEF Send, At
  <2>2. PICK n, j :
          /\ n \in t.todo
          /\ Becomes(w, j) /\ (faults' = faults \/ Fault) /\ pending' \subseteq pending
          /\ \/ j = [t EXCEPT !.todo = @ \ {n}]
             \/ j = Trying(t, n) /\ ~Expired(n) /\ ~Waits(n)
    BY <1>1, <1>6 DEF Send
  <2>3. UNCHANGED <<periodicVars, awaited, now, members, entering, answered, settled, closings, promised>>
    BY <1>6 DEF Send
  <2>4. n \in Dated
    BY <2>1, <2>2
  <2>5. JobFine(w, j) /\ j # None
    <3>1. CASE j = [t EXCEPT !.todo = @ \ {n}]
      <4>1. j \in [at : {"next"}, todo : SUBSET Dated, kept : SUBSET Dated, shard : 0 .. Shards, early : BOOLEAN]
        BY <2>1, <3>1
      <4>2. QED
        BY <1>3, <4>1, NextFine
    <3>2. CASE j = Trying(t, n) /\ ~Expired(n) /\ ~Waits(n)
      <4>1. now \in 1 .. Horizon /\ n.until \in Nat /\ n.after \in Nat /\ Horizon \in Nat
        BY <2>4, LoadFine DEF TInv, StoreFine, Dated, Notice, Never
      <4>2. n.after <= now
        BY <3>2, <4>1 DEF Expired, Waits
      <4>3. /\ j \in [at : Tries, todo : SUBSET Dated, kept : SUBSET Dated, shard : 0 .. Shards, early : BOOLEAN, notice : Dated]
            /\ j.notice = n
        BY <2>1, <2>4, <3>2 DEF Trying, Tries
      <4>4. QED
        BY <1>3, <4>2, <4>3, TryFine
    <3>3. QED
      BY <2>2, <3>1, <3>2
  <2>6. Becomes(w, j) /\ (faults' = faults \/ Fault) /\ pending' \subseteq Dated /\ settled' \subseteq Client
    BY <1>4, <2>2, <2>3
  <2>7. QED
    BY <1>1, <1>2, <2>3, <2>5, <2>6, SendJobStep
<1>7. CASE SendPost(w) \/ SendSettle(w) \/ LaterAdd(w) \/ LaterDone(w)
  <2>1. /\ t \in [at : Tries, todo : SUBSET Dated, kept : SUBSET Dated, shard : 0 .. Shards, early : BOOLEAN, notice : Dated]
        /\ t.notice.after <= now
    BY <1>1, <1>3, <1>7 DEF SendPost, SendSettle, LaterAdd, LaterDone, At, Tries
  <2>2. t.notice \in Dated /\ Later(t.notice) \in Dated /\ t.notice.client \in Client
    BY <2>1, LaterFine, LoadFine DEF Dated, Notice
  <2>3. PICK j, kept, next :
          /\ Becomes(w, j)
          /\ \/ j = Resumed(t, kept) /\ kept \subseteq {Later(t.notice)}
             \/ j = [t EXCEPT !.at = next] /\ next \in Tries
    BY <1>1, <1>7 DEF SendPost, SendSettle, LaterAdd, LaterDone, Goes, Tries
  <2>4. /\ (faults' = faults \/ Fault)
        /\ pending' \subseteq pending \cup {Later(t.notice)} /\ settled' \subseteq settled \cup {t.notice.client}
        /\ UNCHANGED <<periodicVars, awaited, now, members, entering, answered, closings, promised>>
    BY <1>1, <1>7 DEF SendPost, SendSettle, LaterAdd, LaterDone
  <2>5. JobFine(w, j) /\ j # None
    <3>1. CASE j = Resumed(t, kept) /\ kept \subseteq {Later(t.notice)}
      <4>1. j \in [at : {"next"}, todo : SUBSET Dated, kept : SUBSET Dated, shard : 0 .. Shards, early : BOOLEAN]
        BY <2>1, <2>2, <3>1 DEF Resumed
      <4>2. QED
        BY <1>3, <4>1, NextFine
    <3>2. CASE j = [t EXCEPT !.at = next] /\ next \in Tries
      <4>1. /\ j \in [at : Tries, todo : SUBSET Dated, kept : SUBSET Dated, shard : 0 .. Shards, early : BOOLEAN, notice : Dated]
            /\ j.notice = t.notice
        BY <2>1, <3>2
      <4>2. QED
        BY <1>3, <2>1, <4>1, TryFine
    <3>3. QED
      BY <2>3, <3>1, <3>2
  <2>6. pending' \subseteq Dated /\ settled' \subseteq Client
    BY <1>4, <2>2, <2>4
  <2>7. QED
    BY <1>1, <1>2, <2>3, <2>4, <2>5, <2>6, SendJobStep
<1>8. QED
  BY <1>5, <1>6, <1>7 DEF SendStep


----------------------------------------------------------------------------
(* What hosts and time do leaves each worker's job what it was.            *)
LEMMA JobKept ==
  ASSUME TInv, load' = load, members' = members, now \in Nat, now' \in Nat, now <= now',
         NEW w \in Worker, NEW j, JobFine(w, j), phase'[HostOf(w)] = "down" => j = None
  PROVE  JobFine(w, j)'
<1>1. Jobs' = Jobs
  BY DEF Jobs, Dated, Notice
<1>2. j.at \in Tries => j.notice.after \in Nat
  <2>1. ASSUME j.at \in Tries PROVE j.notice \in Dated
    BY <2>1, JobAt DEF JobFine
  <2>2. \A n \in Dated : n.after \in Nat
    BY LoadFine DEF Dated, Notice, Never
  <2>3. QED
    BY <2>1, <2>2
<1>3. j.at \in Tries => j.notice.after <= now'
  BY <1>2 DEF JobFine
<1>4. QED
  BY <1>1, <1>3 DEF JobFine

LEMMA NowIs == ASSUME TInv PROVE now \in Nat /\ now <= now
BY LoadFine DEF TInv, StoreFine

LEMMA OverTyped ==
  ASSUME TInv, NEW w \in Worker, load' = load, Over(w)
  PROVE  TInv'
<1>1. PICK h : h = HostOf(w)
  OBVIOUS
<1>2. h \in Host /\ (w[2] = "timer" => w = TimerOf(h)) /\ (w[2] # "timer" => w # TimerOf(h))
  BY <1>1, Workers
<1>3. /\ Becomes(w, None) /\ UNCHANGED noticeVars
      /\ awaited' = [awaited EXCEPT ![h] = @ \ {w}]
      /\ phase' = phase /\ restarts' = restarts
      /\ current' = (IF w[2] = "timer" THEN [current EXCEPT ![h] = FALSE] ELSE current)
  BY <1>1 DEF Over, RunEnds, periodicVars
<1>4. job'[w] = None /\ DOMAIN job' = Worker /\ \A v \in Worker \ {w} : job'[v] = job[v]
  BY <1>3 DEF Becomes, TInv
<1>5. ASSUME NEW v \in Worker PROVE JobFine(v, job[v])'
  <2>1. PICK i : i = job'[v]
    OBVIOUS
  <2>2. JobFine(v, i)
    BY <1>4, <2>1, NoneFine DEF TInv
  <2>3. phase'[HostOf(v)] = "down" => i = None
    BY <1>3, <2>2 DEF JobFine
  <2>4. JobFine(v, i)'
    BY <1>3, <2>2, <2>3, NowIs, JobKept DEF noticeVars
  <2>5. QED
    BY <2>1, <2>4 DEF JobFine
<1>6. HostsFine'
  <2>1. /\ phase \in [Host -> {"up", "stopping", "hook", "stopped", "late", "down"}]
        /\ current \in [Host -> BOOLEAN] /\ restarts \in Nat
        /\ awaited \in [Host -> SUBSET Worker]
        /\ \A g \in Host : awaited[g] \subseteq {v \in Worker : HostOf(v) = g}
        /\ \A g \in Host : current[g] <=> job[TimerOf(g)] # None
    BY DEF TInv, HostsFine, PeriodicTypeOK
  <2>2. PeriodicTypeOK'
    BY <1>3, <2>1 DEF PeriodicTypeOK
  <2>3. awaited' \in [Host -> SUBSET Worker] /\ \A g \in Host : awaited'[g] \subseteq {v \in Worker : HostOf(v) = g}
    BY <1>2, <1>3, <2>1
  <2>4. ASSUME NEW g \in Host PROVE current'[g] <=> job'[TimerOf(g)] # None
    <3>1. TimerOf(g) \in Worker /\ (w = TimerOf(g) => g = h /\ w[2] = "timer")
      BY <1>1, Workers
    <3>2. CASE w = TimerOf(g)
      BY <1>2, <1>3, <1>4, <2>1, <3>1, <3>2
    <3>3. CASE w # TimerOf(g)
      <4>1. job'[TimerOf(g)] = job[TimerOf(g)]
        BY <1>4, <3>1, <3>3
      <4>2. w[2] = "timer" => g # h
        BY <1>2, <3>3
      <4>3. current'[g] = current[g]
        BY <1>2, <1>3, <2>1, <4>2
      <4>4. QED
        BY <2>1, <4>1, <4>3
    <3>4. QED
      BY <3>2, <3>3
  <2>5. QED
    BY <2>2, <2>3, <2>4 DEF HostsFine
<1>7. StoreFine'
  BY <1>3, SameStore
<1>8. QED
  BY <1>4, <1>5, <1>6, <1>7 DEF TInv

LEMMA SweepTyped ==
  ASSUME TInv, NEW h \in Host, load' = load, Sweep(h)
  PROVE  TInv'
<1>1. PICK w, j : /\ w = TimerOf(h)
                  /\ j = [at |-> "next", todo |-> {}, kept |-> {}, shard |-> 0, early |-> TRUE]
  OBVIOUS
<1>2. w \in Worker /\ HostOf(w) = h /\ w[2] = "timer"
  BY <1>1, Workers
<1>3. /\ Becomes(w, j) /\ UNCHANGED <<noticeVars, awaited>> /\ phase' = phase /\ restarts' = restarts
      /\ phase[h] = "up" /\ current' = [current EXCEPT ![h] = TRUE]
  BY <1>1 DEF Sweep, Tick
<1>4. job'[w] = j /\ DOMAIN job' = Worker /\ \A v \in Worker \ {w} : job'[v] = job[v]
  BY <1>2, <1>3 DEF Becomes, TInv
<1>5. JobFine(w, j) /\ j # None
  <2>1. 0 \in 0 .. Shards /\ {} \in SUBSET Dated
    BY LoadFine
  <2>2. j \in [at : {"next"}, todo : SUBSET Dated, kept : SUBSET Dated, shard : 0 .. Shards, early : BOOLEAN]
    BY <1>1, <2>1
  <2>3. QED
    BY <1>2, <1>3, <2>2, NextFine
<1>6. ASSUME NEW v \in Worker PROVE JobFine(v, job[v])'
  <2>1. PICK i : i = job'[v]
    OBVIOUS
  <2>2. JobFine(v, i)
    BY <1>4, <1>5, <2>1 DEF TInv
  <2>3. phase'[HostOf(v)] = "down" => i = None
    BY <1>3, <2>2 DEF JobFine
  <2>4. JobFine(v, i)'
    BY <1>3, <2>2, <2>3, NowIs, JobKept DEF noticeVars
  <2>5. QED
    BY <2>1, <2>4 DEF JobFine
<1>7. HostsFine'
  <2>1. /\ phase \in [Host -> {"up", "stopping", "hook", "stopped", "late", "down"}]
        /\ current \in [Host -> BOOLEAN] /\ restarts \in Nat
        /\ awaited \in [Host -> SUBSET Worker]
        /\ \A g \in Host : awaited[g] \subseteq {v \in Worker : HostOf(v) = g}
        /\ \A g \in Host : current[g] <=> job[TimerOf(g)] # None
    BY DEF TInv, HostsFine, PeriodicTypeOK
  <2>2. PeriodicTypeOK'
    BY <1>3, <2>1 DEF PeriodicTypeOK
  <2>3. ASSUME NEW g \in Host PROVE current'[g] <=> job'[TimerOf(g)] # None
    <3>1. TimerOf(g) \in Worker /\ (TimerOf(g) = TimerOf(h) => g = h)
      BY Workers
    <3>2. QED
      BY <1>1, <1>3, <1>4, <1>5, <2>1, <3>1
  <2>4. QED
    BY <1>3, <2>1, <2>2, <2>3 DEF HostsFine
<1>8. StoreFine'
  BY <1>3, SameStore
<1>9. QED
  BY <1>4, <1>6, <1>7, <1>8 DEF TInv

LEMMA StopTyped ==
  ASSUME TInv, NEW h \in Host, load' = load, StopStep(h) \/ ProcessEnds(h) \/ Restarts(h)
  PROVE  TInv'
<1> DEFINE Phases == {"up", "stopping", "hook", "stopped", "late", "down"}
<1>1. /\ phase \in [Host -> Phases] /\ current \in [Host -> BOOLEAN] /\ restarts \in Nat
      /\ awaited \in [Host -> SUBSET Worker]
      /\ \A g \in Host : awaited[g] \subseteq {v \in Worker : HostOf(v) = g}
      /\ \A g \in Host : current[g] <=> job[TimerOf(g)] # None
  BY DEF TInv, HostsFine, PeriodicTypeOK
<1>2. CASE StopStep(h) \/ Restarts(h)
  <2>1. PICK p : p \in Phases \ {"down"} /\ phase' = [phase EXCEPT ![h] = p]
    BY <1>2 DEF StopStep, StopHook, Restarts, StopBegins, TasksEnded, HookEnded, Deadline, Starts, To
  <2>2. UNCHANGED <<noticeVars, current, job>> /\ restarts' \in {restarts, restarts + 1}
    BY <1>2 DEF StopStep, StopHook, Restarts, StopBegins, TasksEnded, HookEnded, Deadline, Starts
  <2>3. awaited' = awaited \/ awaited' = [awaited EXCEPT ![h] = {w \in {RequestOf(h)} : Delivering(w)}]
    BY <1>2 DEF StopStep, StopHook, Restarts
  <2>4. PeriodicTypeOK'
    BY <1>1, <2>1, <2>2 DEF PeriodicTypeOK
  <2>5. awaited' \in [Host -> SUBSET Worker] /\ \A g \in Host : awaited'[g] \subseteq {v \in Worker : HostOf(v) = g}
    BY <1>1, <2>3, Workers
  <2>6. HostsFine'
    BY <1>1, <2>2, <2>4, <2>5 DEF HostsFine
  <2>7. ASSUME NEW v \in Worker PROVE JobFine(v, job[v])'
    <3>1. PICK i : i = job'[v]
      OBVIOUS
    <3>2. JobFine(v, i)
      BY <2>2, <3>1 DEF TInv
    <3>3. phase'[HostOf(v)] = "down" => i = None
      BY <1>1, <2>1, <3>2, Workers DEF JobFine
    <3>4. JobFine(v, i)'
      BY <2>2, <3>2, <3>3, NowIs, JobKept DEF noticeVars
    <3>5. QED
      BY <3>1, <3>4 DEF JobFine
  <2>8. StoreFine'
    BY <2>2, SameStore
  <2>9. QED
    BY <2>2, <2>6, <2>7, <2>8 DEF TInv
<1>3. CASE ProcessEnds(h)
  <2>1. /\ phase' = [phase EXCEPT ![h] = "down"] /\ current' = [current EXCEPT ![h] = FALSE] /\ restarts' = restarts
        /\ job' = [w \in Worker |-> IF HostOf(w) = h THEN None ELSE job[w]]
        /\ awaited' = [awaited EXCEPT ![h] = {}]
        /\ UNCHANGED <<now, members, entering, answered, pending, settled, closings, promised>>
    BY <1>3 DEF ProcessEnds, Ends
  <2>2. (faults' = faults \/ Fault)
    BY <1>3 DEF ProcessEnds
  <2>3. PeriodicTypeOK'
    BY <1>1, <2>1 DEF PeriodicTypeOK
  <2>4. awaited' \in [Host -> SUBSET Worker] /\ \A g \in Host : awaited'[g] \subseteq {v \in Worker : HostOf(v) = g}
    BY <1>1, <2>1
  <2>5. ASSUME NEW g \in Host PROVE current'[g] <=> job'[TimerOf(g)] # None
    BY <1>1, <2>1, Workers
  <2>6. HostsFine'
    BY <2>3, <2>4, <2>5 DEF HostsFine
  <2>7. ASSUME NEW v \in Worker PROVE JobFine(v, job[v])'
    <3>1. PICK i : i = job'[v]
      OBVIOUS
    <3>2. JobFine(v, i) /\ (HostOf(v) = h => i = None)
      BY <2>1, <3>1, NoneFine DEF TInv
    <3>3. phase'[HostOf(v)] = "down" => i = None
      BY <1>1, <2>1, <3>2, Workers DEF JobFine
    <3>4. JobFine(v, i)'
      BY <2>1, <3>2, <3>3, NowIs, JobKept
    <3>5. QED
      BY <3>1, <3>4 DEF JobFine
  <2>8. StoreFine'
    BY <2>1, <2>2, StoreStep DEF TInv, StoreFine
  <2>9. DOMAIN job' = Worker
    BY <2>1
  <2>10. QED
    BY <2>6, <2>7, <2>8, <2>9 DEF TInv
<1>4. QED
  BY <1>2, <1>3

LEMMA PassesTyped ==
  ASSUME TInv, load' = load, Passes \/ UNCHANGED vars
  PROVE  TInv'
<1>1. /\ now' = now \/ (now < Horizon /\ now' = now + 1)
      /\ UNCHANGED <<periodicVars, members, entering, answered, pending, settled, closings, promised, faults, awaited, job>>
  BY DEF Passes, vars, noticeVars
<1>2. now \in 1 .. Horizon /\ Horizon \in Nat
  BY LoadFine DEF TInv, StoreFine
<1>3. now \in Nat /\ now' \in Nat /\ now <= now' /\ now' \in 1 .. Horizon
  BY <1>1, <1>2
<1>4. ASSUME NEW v \in Worker PROVE JobFine(v, job[v])'
  <2>1. PICK i : i = job'[v]
    OBVIOUS
  <2>2. JobFine(v, i)
    BY <1>1, <2>1 DEF TInv
  <2>3. JobFine(v, i)'
    <3>1. phase'[HostOf(v)] = "down" => i = None
      BY <1>1, <2>2 DEF JobFine, periodicVars
    <3>2. QED
      BY <1>1, <1>3, <2>2, <3>1, JobKept
  <2>4. QED
    BY <2>1, <2>3 DEF JobFine
<1>5. StoreFine'
  BY <1>1, <1>3 DEF TInv, StoreFine, Dated, Notice
<1>6. HostsFine'
  BY <1>1 DEF TInv, HostsFine, PeriodicTypeOK, periodicVars
<1>7. QED
  BY <1>1, <1>4, <1>5, <1>6 DEF TInv

LEMMA InitTyped == ASSUME Init PROVE TInv
<1>1. /\ load \in Loads /\ phase = [h \in Host |-> "up"] /\ current = [h \in Host |-> FALSE] /\ restarts = 0
      /\ now = 1 /\ members = {} /\ entering = TRUE /\ answered = {} /\ pending = {} /\ settled = {}
      /\ closings = 0 /\ promised = 0 /\ faults = 0
      /\ awaited = [h \in Host |-> {}] /\ job = [w \in Worker |-> None]
  BY DEF Init, PeriodicInit
<1>2. Horizon \in Nat \ {0} /\ load.closings \in Nat /\ load.faults \in Nat
  BY <1>1, NoticesAssumption
<1>3. StoreFine
  BY <1>1, <1>2 DEF StoreFine
<1>4. HostsFine
  BY <1>1, Workers DEF HostsFine, PeriodicTypeOK
<1>5. ASSUME NEW w \in Worker PROVE JobFine(w, job[w])
  BY <1>1, NoneFine
<1>6. QED
  BY <1>1, <1>3, <1>4, <1>5 DEF TInv

LEMMA StepTyped ==
  ASSUME TInv, [Next]_vars
  PROVE  TInv'
<1>1. load' = load
  BY DEF Next, vars
<1>2. CASE \E w \in Worker : Work(w) \/ CloseFails(w)
  BY <1>1, <1>2, RedeemTyped, CloseTyped, SendTyped, OverTyped DEF Work
<1>3. CASE \E h \in load.serving : BeginRedeem(RequestOf(h)) \/ BeginClosing(RequestOf(h))
  BY <1>1, <1>3, RedeemTyped, CloseTyped, Workers, LoadFine
<1>4. CASE \E h \in load.sweeping : Sweep(h)
  BY <1>1, <1>4, SweepTyped, LoadFine
<1>5. CASE \E h \in load.serving \cup load.sweeping : StopStep(h) \/ ProcessEnds(h) \/ Restarts(h)
  BY <1>1, <1>5, StopTyped, LoadFine
<1>6. CASE Passes \/ UNCHANGED vars
  BY <1>1, <1>6, PassesTyped
<1>7. QED
  BY <1>2, <1>3, <1>4, <1>5, <1>6 DEF Next

LEMMA AlwaysTyped == Spec => []TInv
<1>1. Init => TInv
  BY InitTyped
<1>2. TInv /\ [Next]_vars => TInv'
  BY StepTyped
<1>3. QED
  BY <1>1, <1>2, PTL DEF Spec

(* Every variable, notice and job keeps its type, and a host's timer is    *)
(* busy exactly while its sweep's `current` says so (every.ts, notices.ts).*)
THEOREM NoticesTypeCorrect == Spec => []TypeOK
<1>1. TInv => TypeOK
  <2> SUFFICES ASSUME TInv PROVE TypeOK
    OBVIOUS
  <2>1. pending \subseteq Notice /\ members \subseteq Client
    BY LoadFine DEF TInv, StoreFine, Dated
  <2>2. \A h \in Host : current[h] <=> ~Idle(TimerOf(h))
    BY DEF TInv, HostsFine, Idle
  <2>3. \A w \in Worker : phase[HostOf(w)] = "down" => Idle(w)
    BY DEF TInv, JobFine, Idle
  <2>4. load \in Loads /\ PeriodicTypeOK /\ \A h \in Host : awaited[h] \subseteq {w \in Worker : HostOf(w) = h}
    BY DEF TInv, HostsFine
  <2>5. QED
    BY <2>1, <2>2, <2>3, <2>4 DEF TInv, StoreFine, TypeOK
<1>2. QED
  BY <1>1, AlwaysTyped, PTL


----------------------------------------------------------------------------
(* What a sweep's or a delivery's own step leaves alone.                   *)
LEMMA SendKeeps ==
  ASSUME TInv, NEW w \in Worker, NextShard(w) \/ SendStep(w)
  PROVE  /\ job[w].at \in Sends
         /\ \E j : Becomes(w, j) /\ j.at \in Sends /\ j.early = job[w].early
         /\ UNCHANGED <<periodicVars, awaited, now, members, entering, answered, closings, promised>>
<1>1. PICK t : t = job[w]
  OBVIOUS
<1>2. t.at \in Sends
  BY <1>1 DEF NextShard, SendStep, Send, SendPost, SendSettle, LaterAdd, LaterDone, At, Sends, Tries
<1>3. /\ t.at = "next" =>
           t \in [at : {"next"}, todo : SUBSET Dated, kept : SUBSET Dated, shard : 0 .. Shards, early : BOOLEAN]
      /\ t.at \in Tries =>
           t \in [at : Tries, todo : SUBSET Dated, kept : SUBSET Dated, shard : 0 .. Shards, early : BOOLEAN, notice : Dated]
  BY <1>1, <1>2, SendsBusy
<1>4. UNCHANGED <<periodicVars, awaited, now, members, entering, answered, closings, promised>>
  BY DEF NextShard, SendStep, Send, SendPost, SendSettle, LaterAdd, LaterDone
<1>5. CASE NextShard(w)
  <2>1. t \in [at : {"next"}, todo : SUBSET Dated, kept : SUBSET Dated, shard : 0 .. Shards, early : BOOLEAN]
    BY <1>1, <1>3, <1>5 DEF NextShard, At
  <2>2. PICK j : /\ Becomes(w, j)
                 /\ \/ j = [t EXCEPT !.todo = {n \in pending : ShardOf(n) = t.shard}, !.shard = @ + 1]
                    \/ j = [t EXCEPT !.shard = @ + 1]
    BY <1>1, <1>5 DEF NextShard
  <2>3. j.at = "next" /\ j.early = t.early
    BY <2>1, <2>2
  <2>4. QED
    BY <1>1, <1>2, <1>4, <2>2, <2>3 DEF Sends
<1>6. CASE Send(w)
  <2>1. t \in [at : {"next"}, todo : SUBSET Dated, kept : SUBSET Dated, shard : 0 .. Shards, early : BOOLEAN]
    BY <1>1, <1>3, <1>6 DEF Send, At
  <2>2. PICK n, j : Becomes(w, j) /\ (j = [t EXCEPT !.todo = @ \ {n}] \/ j = Trying(t, n))
    BY <1>1, <1>6 DEF Send
  <2>3. j.at \in Sends /\ j.early = t.early
    BY <2>1, <2>2 DEF Trying, Sends, Tries
  <2>4. QED
    BY <1>1, <1>2, <1>4, <2>2, <2>3
<1>7. CASE SendPost(w) \/ SendSettle(w) \/ LaterAdd(w) \/ LaterDone(w)
  <2>1. t \in [at : Tries, todo : SUBSET Dated, kept : SUBSET Dated, shard : 0 .. Shards, early : BOOLEAN, notice : Dated]
    BY <1>1, <1>3, <1>7 DEF SendPost, SendSettle, LaterAdd, LaterDone, At, Tries
  <2>2. PICK j, kept, next :
          /\ Becomes(w, j)
          /\ j = Resumed(t, kept) \/ (j = [t EXCEPT !.at = next] /\ next \in Tries)
    BY <1>1, <1>7 DEF SendPost, SendSettle, LaterAdd, LaterDone, Goes, Tries
  <2>3. j.at \in Sends /\ j.early = t.early
    BY <2>1, <2>2 DEF Resumed, Sends
  <2>4. QED
    BY <1>1, <1>2, <1>4, <2>2, <2>3
<1>8. QED
  BY <1>5, <1>6, <1>7 DEF SendStep

(* While its stop hook runs a host's timer is idle, and each delivery      *)
(* begun before the hook is among those it waits for.                      *)
QuietHost(h) ==
  /\ phase[h] \in {"hook", "stopped"} =>
       /\ job[TimerOf(h)] = None
       /\ job[RequestOf(h)].at \in Sends /\ job[RequestOf(h)].early => RequestOf(h) \in awaited[h]
  /\ phase[h] = "stopped" => awaited[h] = {}

QInv == \A h \in Host : QuietHost(h)

LEMMA QuietStep ==
  ASSUME TInv, QInv, NEW w \in Worker, NEW j, Becomes(w, j), UNCHANGED <<periodicVars, awaited>>,
         w[2] = "timer" => (j = None <=> job[w] = None),
         j.at \in Sends /\ j.early => (job[w].at \in Sends /\ job[w].early) \/ phase[HostOf(w)] \in {"up", "stopping"}
  PROVE  QInv'
<1> SUFFICES ASSUME NEW h \in Host PROVE QuietHost(h)'
  BY DEF QInv
<1>1. job'[w] = j /\ \A v \in Worker \ {w} : job'[v] = job[v]
  BY DEF Becomes, TInv
<1>2. QuietHost(h) /\ phase' = phase /\ awaited' = awaited
  BY DEF QInv, periodicVars
<1>3. PICK t, r : t = TimerOf(h) /\ r = RequestOf(h)
  OBVIOUS
<1>4. t \in Worker /\ r \in Worker /\ HostOf(t) = h /\ HostOf(r) = h /\ t[2] = "timer"
  BY <1>3, Workers
<1>5. job'[t] = None <=> job[t] = None
  BY <1>1, <1>4
<1>6. phase[h] \in {"hook", "stopped"} /\ job'[r].at \in Sends /\ job'[r].early => job[r].at \in Sends /\ job[r].early
  BY <1>1, <1>4
<1>7. QED
  BY <1>2, <1>3, <1>5, <1>6 DEF QuietHost

LEMMA NoneRests == None.at \notin Sends
BY DEF None, Sends, Tries

LEMMA QuietOver ==
  ASSUME TInv, QInv, NEW w \in Worker, Over(w)
  PROVE  QInv'
<1> SUFFICES ASSUME NEW h \in Host PROVE QuietHost(h)'
  BY DEF QInv
<1>1. QuietHost(h) /\ awaited \in [Host -> SUBSET Worker] /\ DOMAIN job = Worker
  BY DEF QInv, TInv, HostsFine
<1>2. /\ Becomes(w, None) /\ awaited' = [awaited EXCEPT ![HostOf(w)] = @ \ {w}] /\ phase' = phase
  BY DEF Over, RunEnds, periodicVars
<1>3. job'[w] = None /\ \A v \in Worker \ {w} : job'[v] = job[v]
  BY <1>1, <1>2 DEF Becomes
<1>4. PICK t, r : t = TimerOf(h) /\ r = RequestOf(h)
  OBVIOUS
<1>5. t \in Worker /\ r \in Worker
  BY <1>4, Workers
<1>6. job[t] = None => job'[t] = None
  BY <1>3, <1>5
<1>7. awaited'[h] \subseteq awaited[h] /\ awaited[h] \ {w} \subseteq awaited'[h]
  BY <1>1, <1>2, Workers
<1>8. job'[r].at \in Sends => r # w /\ job'[r] = job[r]
  BY <1>3, <1>5, NoneRests
<1>9. QED
  BY <1>1, <1>2, <1>4, <1>6, <1>7, <1>8 DEF QuietHost

LEMMA QuietStops ==
  ASSUME TInv, QInv, NEW g \in Host, StopStep(g) \/ ProcessEnds(g) \/ Restarts(g)
  PROVE  QInv'
<1> SUFFICES ASSUME NEW h \in Host PROVE QuietHost(h)'
  BY DEF QInv
<1>1. /\ QuietHost(h) /\ awaited \in [Host -> SUBSET Worker] /\ DOMAIN job = Worker
      /\ current[g] <=> job[TimerOf(g)] # None
      /\ phase \in [Host -> {"up", "stopping", "hook", "stopped", "late", "down"}]
  BY DEF QInv, TInv, HostsFine, PeriodicTypeOK
<1>2. PICK r : r = RequestOf(h)
  OBVIOUS
<1>3. \A i : i.at \in Sends <=> i.at \in {"next", "post", "settle", "later.add", "later.done"}
  BY DEF Sends, Tries
<1>4. CASE StopHook(g)
  <2>1. /\ ~current[g] /\ phase' = [phase EXCEPT ![g] = "hook"] /\ job' = job
        /\ awaited' = [awaited EXCEPT ![g] = {w \in {RequestOf(g)} : Delivering(w)}]
    BY <1>4 DEF StopHook, TasksEnded, To
  <2>2. CASE h = g
    <3>1. job'[TimerOf(h)] = None /\ phase'[h] = "hook"
      BY <1>1, <2>1, <2>2
    <3>2. job'[r].at \in Sends => r \in awaited'[h]
      BY <1>1, <1>2, <1>3, <2>1, <2>2 DEF Delivering
    <3>3. QED
      BY <1>2, <3>1, <3>2 DEF QuietHost
  <2>3. CASE h # g
    BY <1>1, <2>1, <2>3 DEF QuietHost
  <2>4. QED
    BY <2>2, <2>3
<1>5. CASE HookEnded(g) /\ awaited[g] = {} /\ UNCHANGED <<noticeVars, awaited, job>>
  <2>1. phase[g] = "hook" /\ phase' = [phase EXCEPT ![g] = "stopped"]
    BY <1>5 DEF HookEnded, To
  <2>2. QED
    BY <1>1, <1>5, <2>1 DEF QuietHost
<1>6. CASE StopBegins(g) /\ UNCHANGED <<awaited, job>>
  <2>1. phase' = [phase EXCEPT ![g] = "stopping"]
    BY <1>6 DEF StopBegins, To
  <2>2. QED
    BY <1>1, <1>6, <2>1 DEF QuietHost
<1>7. CASE Deadline(g) /\ UNCHANGED <<awaited, job>>
  <2>1. phase' = [phase EXCEPT ![g] = "late"]
    BY <1>7 DEF Deadline, To
  <2>2. QED
    BY <1>1, <1>7, <2>1 DEF QuietHost
<1>8. CASE Restarts(g)
  <2>1. phase' = [phase EXCEPT ![g] = "up"] /\ UNCHANGED <<awaited, job>>
    BY <1>8 DEF Restarts, Starts, To
  <2>2. QED
    BY <1>1, <2>1 DEF QuietHost
<1>9. CASE ProcessEnds(g)
  <2>1. /\ phase' = [phase EXCEPT ![g] = "down"]
        /\ job' = [w \in Worker |-> IF HostOf(w) = g THEN None ELSE job[w]]
        /\ awaited' = [awaited EXCEPT ![g] = {}]
    BY <1>9 DEF ProcessEnds, Ends
  <2>2. h # g => /\ phase'[h] = phase[h] /\ awaited'[h] = awaited[h]
                 /\ job'[TimerOf(h)] = job[TimerOf(h)] /\ job'[RequestOf(h)] = job[RequestOf(h)]
    BY <1>1, <2>1, Workers
  <2>3. h = g => phase'[h] = "down"
    BY <1>1, <2>1
  <2>4. QED
    BY <1>1, <2>2, <2>3 DEF QuietHost
<1>10. QED
  BY <1>4, <1>5, <1>6, <1>7, <1>8, <1>9 DEF StopStep

LEMMA QuietWork ==
  ASSUME TInv, QInv, NEW w \in Worker,
         \/ Work(w) \/ CloseFails(w)
         \/ \E h \in load.serving : w = RequestOf(h) /\ (BeginRedeem(w) \/ BeginClosing(w))
  PROVE  QInv'
<1>1. PICK t : t = job[w]
  OBVIOUS
<1>2. t \in Jobs /\ (w[2] = "timer" => t.at \in Sends \cup {"none"})
  BY <1>1 DEF TInv, JobFine
<1>3. CASE RedeemStep(w)
  <2>1. t.at \in {"redeem.remember", "redeem.enter"}
    BY <1>1, <1>3 DEF RedeemStep, RedeemRemember, RedeemEnter, At
  <2>2. t \in [at : {"redeem.remember", "redeem.enter"}, client : load.clients]
    BY <1>2, <2>1, JobAt
  <2>3. PICK j : Becomes(w, j) /\ (j = None \/ j = [t EXCEPT !.at = "redeem.enter"])
    BY <1>1, <1>3 DEF RedeemStep, RedeemRemember, RedeemEnter, Goes
  <2>4. j.at \notin Sends
    BY <2>2, <2>3, NoneRests DEF Sends, Tries
  <2>5. w[2] # "timer"
    BY <1>2, <2>1 DEF Sends, Tries
  <2>6. UNCHANGED <<periodicVars, awaited>>
    BY <1>3 DEF RedeemStep, RedeemRemember, RedeemEnter
  <2>7. QED
    BY <2>3, <2>4, <2>5, <2>6, QuietStep
<1>4. CASE CloseStep(w) \/ CloseFails(w)
  <2>1. t.at \in {"close.members", "close.keep"}
    BY <1>1, <1>4 DEF CloseStep, CloseFails, CloseMembers, CloseKeep, CloseAnswer, At
  <2>2. w[2] # "timer"
    BY <1>2, <2>1 DEF Sends, Tries
  <2>3. UNCHANGED <<periodicVars, awaited>>
    BY <1>4 DEF CloseStep, CloseFails, CloseMembers, CloseKeep, CloseAnswer
  <2>4. PICK j : Becomes(w, j) /\ (j.at \in Sends /\ j.early => phase[HostOf(w)] \in {"up", "stopping"})
    <3>1. CASE CloseAnswer(w)
      <4>1. PICK early, j : /\ early = (phase[HostOf(w)] \in {"up", "stopping"})
                            /\ j = [at |-> "next", todo |-> t.notices, kept |-> {}, shard |-> Shards, early |-> early]
        OBVIOUS
      <4>2. Becomes(w, j)
        BY <1>1, <3>1, <4>1 DEF CloseAnswer
      <4>3. j.early => phase[HostOf(w)] \in {"up", "stopping"}
        BY <4>1
      <4>4. QED
        BY <4>2, <4>3
    <3>2. CASE CloseKeep(w)
      <4>1. t \in [at : {"close.keep"}, until : 1 .. Horizon, notices : SUBSET Dated, todo : SUBSET Dated]
        BY <1>1, <1>2, <3>2, JobAt DEF CloseKeep, At
      <4>2. PICK n, j : Becomes(w, j) /\ j = [t EXCEPT !.todo = @ \ {n}]
        BY <1>1, <3>2 DEF CloseKeep
      <4>3. j.at = "close.keep"
        BY <4>1, <4>2
      <4>4. QED
        BY <4>2, <4>3 DEF Sends, Tries
    <3>3. CASE CloseMembers(w)
      <4>1. PICK until, made, j : Becomes(w, j) /\ j = [at |-> "close.keep", until |-> until, notices |-> made, todo |-> made]
        BY <3>3 DEF CloseMembers
      <4>2. j.at \notin Sends
        BY <4>1 DEF Sends, Tries
      <4>3. QED
        BY <4>1, <4>2
    <3>4. CASE CloseFails(w)
      BY <3>4, NoneRests DEF CloseFails
    <3>5. QED
      BY <1>4, <3>1, <3>2, <3>3, <3>4 DEF CloseStep
  <2>5. QED
    BY <2>2, <2>3, <2>4, QuietStep
<1>5. CASE NextShard(w) \/ SendStep(w)
  <2>1. /\ job[w].at \in Sends /\ UNCHANGED <<periodicVars, awaited>>
        /\ \E j : Becomes(w, j) /\ j.at \in Sends /\ j.early = job[w].early
    BY <1>5, SendKeeps
  <2>2. PICK j : Becomes(w, j) /\ j.at \in Sends /\ j.early = job[w].early
    BY <2>1
  <2>3. j # None /\ job[w] # None
    BY <2>1, <2>2, NoneRests
  <2>4. QED
    BY <2>1, <2>2, <2>3, QuietStep
<1>6. CASE \E h \in load.serving : w = RequestOf(h) /\ (BeginRedeem(w) \/ BeginClosing(w))
  <2>1. w[2] # "timer"
    BY <1>6, Workers, LoadFine
  <2>2. UNCHANGED <<periodicVars, awaited>>
    BY <1>6 DEF BeginRedeem, BeginClosing
  <2>3. PICK j : Becomes(w, j) /\ j.at \in {"redeem.remember", "close.members"}
    <3>1. CASE BeginRedeem(w)
      <4>1. PICK c, j : Becomes(w, j) /\ j = [at |-> "redeem.remember", client |-> c]
        BY <3>1 DEF BeginRedeem
      <4>2. j.at = "redeem.remember"
        BY <4>1
      <4>3. QED
        BY <4>1, <4>2
    <3>2. CASE BeginClosing(w)
      <4>1. PICK n, j : n = closings' /\ j = [at |-> "close.members", made |-> n]
        OBVIOUS
      <4>2. Becomes(w, j)
        BY <3>2, <4>1 DEF BeginClosing
      <4>3. j.at = "close.members"
        BY <4>1
      <4>4. QED
        BY <4>2, <4>3
    <3>3. QED
      BY <1>6, <3>1, <3>2
  <2>4. QED
    BY <2>1, <2>2, <2>3, QuietStep DEF Sends, Tries
<1>7. QED
  BY <1>3, <1>4, <1>5, <1>6, QuietOver DEF Work

LEMMA QuietSweep ==
  ASSUME TInv, QInv, NEW g \in Host, Sweep(g)
  PROVE  QInv'
<1> SUFFICES ASSUME NEW h \in Host PROVE QuietHost(h)'
  BY DEF QInv
<1>1. PICK w, j : w = TimerOf(g) /\ Becomes(w, j) /\ phase' = phase /\ awaited' = awaited /\ phase[g] = "up"
  BY DEF Sweep, Tick
<1>2. job'[w] = j /\ \A v \in Worker \ {w} : job'[v] = job[v]
  BY <1>1, Workers DEF Becomes, TInv
<1>3. h # g => job'[TimerOf(h)] = job[TimerOf(h)] /\ job'[RequestOf(h)] = job[RequestOf(h)]
  <2>1. TimerOf(h) \in Worker /\ RequestOf(h) \in Worker /\ (w = TimerOf(h) => h = g) /\ w # RequestOf(h)
    BY <1>1, Workers
  <2>2. QED
    BY <1>2, <2>1
<1>4. QuietHost(h)
  BY DEF QInv
<1>5. QED
  BY <1>1, <1>3, <1>4 DEF QuietHost

(* A host whose stop came back in time runs no sweep, and no delivery      *)
(* begun before its stop hook was called (stop.ts, every.ts stop,          *)
(* rp-logout's onStop).                                                    *)
THEOREM StopsAreQuiet == Spec => []StoppedIsQuiet
<1>1. Init => QInv
  <2> SUFFICES ASSUME Init, NEW h \in Host PROVE QuietHost(h)
    BY DEF QInv
  <2>1. QED
    BY DEF Init, PeriodicInit, QuietHost
<1>2. TInv /\ QInv /\ [Next]_vars => QInv'
  <2> SUFFICES ASSUME TInv, QInv, [Next]_vars PROVE QInv'
    OBVIOUS
  <2>1. CASE \E w \in Worker : Work(w) \/ CloseFails(w)
    BY <2>1, QuietWork
  <2>2. CASE \E h \in load.serving : BeginRedeem(RequestOf(h)) \/ BeginClosing(RequestOf(h))
    BY <2>2, QuietWork, Workers, LoadFine
  <2>3. CASE \E h \in load.sweeping : Sweep(h)
    BY <2>3, QuietSweep, LoadFine
  <2>4. CASE \E h \in load.serving \cup load.sweeping : StopStep(h) \/ ProcessEnds(h) \/ Restarts(h)
    BY <2>4, QuietStops, LoadFine
  <2>5. CASE Passes \/ UNCHANGED vars
    <3>1. phase' = phase /\ job' = job /\ awaited' = awaited
      BY <2>5 DEF Passes, vars, periodicVars
    <3>2. QED
      BY <3>1 DEF QInv, QuietHost
  <2>6. QED
    BY <2>1, <2>2, <2>3, <2>4, <2>5 DEF Next
<1>3. TInv /\ QInv => StoppedIsQuiet
  <2> SUFFICES ASSUME TInv, QInv, NEW w \in Worker, phase[HostOf(w)] = "stopped", Delivering(w)
               PROVE  ~job[w].early
    BY DEF StoppedIsQuiet
  <2>1. HostOf(w) \in Host /\ (w = TimerOf(HostOf(w)) \/ w = RequestOf(HostOf(w)))
    BY Workers
  <2>2. job[w].at \in Sends /\ job[w] # None
    BY NoneRests DEF Delivering, Sends, Tries
  <2>3. QED
    BY <2>1, <2>2 DEF QInv, QuietHost
<1>4. QED
  BY <1>1, <1>2, <1>3, AlwaysTyped, PTL DEF Spec


----------------------------------------------------------------------------
(* A client is covered until a time where it took a notice, or one is kept *)
(* for it to that end; a notice followed may go, for its client is settled *)
(* or a later one of the same end is kept.                                 *)
Covered(c, until) == c \in settled \/ now > until \/ \E n \in pending : n.client = c /\ n.until >= until

Followed(n) ==
  n.client \in settled \/ now > n.until
  \/ \E m \in pending : m.client = n.client /\ m.until = n.until /\ m.after > n.after

(* What a job knows: one that closes, that the session lets none in any    *)
(* more, and that each client answered has its notice kept or still to be  *)
(* kept; one that settles or has put off its notice, that the notice may   *)
(* go.                                                                     *)
Knows(j) ==
  /\ j.at \in {"close.members", "close.keep"} => ~entering
  /\ j.at = "close.keep" =>
       /\ \A n \in j.todo : n.until = j.until
       /\ \A c \in answered : Covered(c, j.until) \/ \E n \in j.todo : n.client = c
  /\ j.at = "settle" => j.notice.client \in settled
  /\ j.at = "later.done" => Followed(j.notice)

Promise == promised # 0 => ~entering /\ \A c \in answered : Covered(c, promised)

KInv == Promise /\ \A w \in Worker : Knows(job[w])

LEMMA Times ==
  ASSUME TInv, NEW n \in Dated
  PROVE  n.until \in Nat /\ n.after \in Nat
BY LoadFine DEF Dated, Notice, Never

(* A step that drops only notices followed keeps every client covered, and *)
(* every notice followed.                                                  *)
Drops ==
  /\ settled \subseteq settled' /\ now' \in {now, now + 1}
  /\ \A n \in pending \ pending' : Followed(n)'

LEMMA CoveredKept ==
  ASSUME TInv, TInv', load' = load, Drops, NEW c, NEW until \in Nat, Covered(c, until)
  PROVE  Covered(c, until)'
<1>1. now \in Nat /\ now' \in Nat /\ now <= now' /\ pending \subseteq Dated /\ pending' \subseteq Dated
  <2>1. now \in Nat /\ pending \subseteq Dated
    BY NowIs DEF TInv, StoreFine
  <2>2. pending' \subseteq Dated
    BY DEF TInv, StoreFine, Dated, Notice
  <2>3. QED
    BY <2>1, <2>2 DEF Drops
<1>2. CASE c \in settled \/ now > until
  BY <1>1, <1>2 DEF Covered, Drops
<1>3. CASE \E n \in pending : n.client = c /\ n.until >= until
  <2>1. PICK n \in pending : n.client = c /\ n.until >= until
    BY <1>3
  <2>2. CASE n \in pending'
    BY <2>1, <2>2 DEF Covered
  <2>3. CASE n \notin pending'
    <3>1. n.client \in settled' \/ now' > n.until \/ \E m \in pending' : m.client = n.client /\ m.until = n.until
      BY <2>3 DEF Drops, Followed
    <3>2. n.until \in Nat
      BY <1>1, Times
    <3>3. now' > n.until => now' > until
      BY <1>1, <2>1, <3>2
    <3>4. QED
      BY <2>1, <3>1, <3>3 DEF Covered
  <2>4. QED
    BY <2>2, <2>3
<1>4. QED
  BY <1>2, <1>3 DEF Covered

LEMMA FollowedKept ==
  ASSUME TInv, TInv', load' = load, Drops, NEW n \in Dated, Followed(n)
  PROVE  Followed(n)'
<1>1. now \in Nat /\ now' \in Nat /\ now <= now' /\ pending \subseteq Dated /\ pending' \subseteq Dated
  <2>1. now \in Nat /\ pending \subseteq Dated
    BY NowIs DEF TInv, StoreFine
  <2>2. pending' \subseteq Dated
    BY DEF TInv, StoreFine, Dated, Notice
  <2>3. QED
    BY <2>1, <2>2 DEF Drops
<1>2. n.until \in Nat /\ n.after \in Nat
  BY Times
<1>3. CASE n.client \in settled \/ now > n.until
  <2>1. now > n.until => now' > n.until
    BY <1>1, <1>2
  <2>2. QED
    BY <1>3, <2>1 DEF Followed, Drops
<1>4. CASE \E m \in pending : m.client = n.client /\ m.until = n.until /\ m.after > n.after
  <2>1. PICK m \in pending : m.client = n.client /\ m.until = n.until /\ m.after > n.after
    BY <1>4
  <2>2. CASE m \in pending'
    BY <2>1, <2>2 DEF Followed
  <2>3. CASE m \notin pending'
    <3>1. m.client \in settled' \/ now' > m.until
          \/ \E k \in pending' : k.client = m.client /\ k.until = m.until /\ k.after > m.after
      BY <2>3 DEF Drops, Followed
    <3>2. m.after \in Nat /\ \A k \in pending' : k.after \in Nat
      BY <1>1, Times
    <3>3. \A k \in pending' : k.after > m.after => k.after > n.after
      BY <1>2, <2>1, <3>2
    <3>4. QED
      BY <2>1, <3>1, <3>3 DEF Followed
  <2>4. QED
    BY <2>2, <2>3
<1>5. QED
  BY <1>3, <1>4 DEF Followed

(* Clients are answered only while the session lets in, and it never lets  *)
(* in again.                                                               *)
Answers == (entering' => entering) /\ (answered' = answered \/ entering)

LEMMA KnowsKept ==
  ASSUME TInv, TInv', load' = load, Drops, Answers, NEW j \in Jobs, Knows(j)
  PROVE  Knows(j)'
<1>1. j.at = "close.keep" => j.until \in Nat
  <2>1. \A u \in 1 .. Horizon : u \in Nat
    BY LoadFine
  <2>2. QED
    BY <2>1, JobAt
<1>2. j.at \in {"settle", "later.done"} => j.notice \in Dated
  BY JobAt DEF Tries
<1>3. j.at \in {"close.members", "close.keep"} => ~entering'
  BY DEF Knows, Answers
<1>4. j.at = "close.keep" => \A c \in answered' : Covered(c, j.until)' \/ \E n \in j.todo : n.client = c
  <2>1. SUFFICES ASSUME j.at = "close.keep", NEW c \in answered'
                 PROVE  Covered(c, j.until)' \/ \E n \in j.todo : n.client = c
    OBVIOUS
  <2>2. c \in answered
    BY <2>1 DEF Knows, Answers
  <2>3. PICK u \in Nat : u = j.until
    BY <1>1, <2>1
  <2>4. Covered(c, u) => Covered(c, u)'
    BY CoveredKept
  <2>5. Covered(c, u) \/ \E n \in j.todo : n.client = c
    BY <2>1, <2>2, <2>3 DEF Knows
  <2>6. QED
    BY <2>3, <2>4, <2>5
<1>5. j.at = "settle" => j.notice.client \in settled'
  BY DEF Knows, Drops
<1>6. j.at = "later.done" => Followed(j.notice)'
  <2>1. PICK n : n = j.notice
    OBVIOUS
  <2>2. j.at = "later.done" => n \in Dated /\ Followed(n)
    BY <1>2, <2>1 DEF Knows
  <2>3. j.at = "later.done" => Followed(n)'
    BY <2>2, FollowedKept
  <2>4. QED
    BY <2>1, <2>3
<1>7. QED
  BY <1>3, <1>4, <1>5, <1>6 DEF Knows

LEMMA PromiseKept ==
  ASSUME TInv, TInv', load' = load, Drops, Answers, Promise, promised' = promised
  PROVE  Promise'
<1>1. PICK u : u = promised /\ u \in Nat
  BY LoadFine DEF TInv, StoreFine
<1>2. u # 0 => ~entering' /\ answered' = answered
  BY <1>1 DEF Promise, Answers
<1>3. ASSUME u # 0, NEW c \in answered' PROVE Covered(c, u)'
  BY <1>1, <1>2, <1>3, CoveredKept DEF Promise
<1>4. QED
  BY <1>1, <1>2, <1>3 DEF Promise, Covered

LEMMA KnowsStep ==
  ASSUME TInv, TInv', KInv, load' = load, Drops, Answers,
         Promise' \/ promised' = promised,
         \A v \in Worker : \A i : i = job'[v] => i = job[v] \/ Knows(i)'
  PROVE  KInv'
<1>1. Promise'
  BY PromiseKept DEF KInv
<1>2. ASSUME NEW v \in Worker PROVE Knows(job[v])'
  <2>1. PICK i : i = job'[v]
    OBVIOUS
  <2>2. i = job[v] => Knows(i) /\ i \in Jobs
    BY DEF KInv, TInv, JobFine
  <2>3. Knows(i)'
    BY <2>1, <2>2, KnowsKept
  <2>4. QED
    BY <2>1, <2>3 DEF Knows
<1>3. QED
  BY <1>1, <1>2 DEF KInv


LEMMA KnowsNothing ==
  ASSUME NEW j, j.at \notin {"close.members", "close.keep", "settle", "later.done"}
  PROVE  Knows(j)'
BY DEF Knows

LEMMA NoneKnows == Knows(None)'
BY KnowsNothing DEF None

(* What a step of one worker makes of its job.                             *)
LEMMA KnowsOne ==
  ASSUME TInv, TInv', KInv, load' = load, Drops, Answers, NEW w \in Worker, NEW j, Becomes(w, j), Knows(j)',
         Promise' \/ promised' = promised
  PROVE  KInv'
<1>1. job'[w] = j /\ \A v \in Worker \ {w} : job'[v] = job[v]
  BY DEF Becomes, TInv
<1>2. \A v \in Worker : \A i : i = job'[v] => i = job[v] \/ Knows(i)'
  <2>1. SUFFICES ASSUME NEW v \in Worker, NEW i, i = job'[v] PROVE i = job[v] \/ Knows(i)'
    OBVIOUS
  <2>2. v = w => i = j
    BY <1>1, <2>1
  <2>3. v # w => i = job[v]
    BY <1>1, <2>1
  <2>4. QED
    BY <2>2, <2>3
<1>3. QED
  BY <1>2, KnowsStep

LEMMA KnowsRedeem ==
  ASSUME TInv, TInv', KInv, load' = load, NEW w \in Worker, RedeemStep(w) \/ BeginRedeem(w)
  PROVE  KInv'
<1>1. PICK t : t = job[w]
  OBVIOUS
<1>2. UNCHANGED <<now, entering, pending, settled, promised>>
  BY DEF RedeemStep, RedeemRemember, RedeemEnter, BeginRedeem, noticeVars
<1>3. answered' = answered \/ entering
  BY DEF RedeemStep, RedeemRemember, RedeemEnter, BeginRedeem, noticeVars
<1>4. Drops /\ Answers
  BY <1>2, <1>3 DEF Drops, Answers
<1>5. \E j : Becomes(w, j) /\ Knows(j)'
  <2>1. CASE RedeemEnter(w)
    BY <2>1, NoneKnows DEF RedeemEnter
  <2>2. CASE RedeemRemember(w)
    <3>1. t \in [at : {"redeem.remember", "redeem.enter"}, client : load.clients]
      BY <1>1, <2>2, JobAt DEF RedeemRemember, At, TInv, JobFine
    <3>2. PICK j : Becomes(w, j) /\ j = [t EXCEPT !.at = "redeem.enter"]
      BY <1>1, <2>2 DEF RedeemRemember, Goes
    <3>3. j.at = "redeem.enter"
      BY <3>1, <3>2
    <3>4. QED
      BY <3>2, <3>3, KnowsNothing
  <2>3. CASE BeginRedeem(w)
    <3>1. PICK c, j : Becomes(w, j) /\ j = [at |-> "redeem.remember", client |-> c]
      BY <2>3 DEF BeginRedeem
    <3>2. j.at = "redeem.remember"
      BY <3>1
    <3>3. QED
      BY <3>1, <3>2, KnowsNothing
  <2>4. QED
    BY <2>1, <2>2, <2>3 DEF RedeemStep
<1>6. QED
  BY <1>2, <1>4, <1>5, KnowsOne

LEMMA KnowsClose ==
  ASSUME TInv, TInv', KInv, load' = load, NEW w \in Worker, CloseStep(w) \/ CloseFails(w) \/ BeginClosing(w)
  PROVE  KInv'
<1>1. PICK t : t = job[w]
  OBVIOUS
<1>2. t \in Jobs /\ Knows(t)
  BY <1>1 DEF TInv, KInv, JobFine
<1>3. UNCHANGED <<now, answered, settled>> /\ (entering' => entering) /\ pending \subseteq pending'
  <2>1. CASE CloseFails(w) \/ CloseMembers(w) \/ CloseAnswer(w)
    BY <2>1 DEF CloseFails, CloseMembers, CloseAnswer, noticeVars
  <2>2. CASE CloseKeep(w)
    <3>1. UNCHANGED <<now, entering, answered, settled>>
      BY <2>2 DEF CloseKeep
    <3>2. \E n : pending' = pending \cup {n}
      BY <2>2 DEF CloseKeep
    <3>3. QED
      BY <3>1, <3>2
  <2>3. CASE BeginClosing(w)
    <3>1. UNCHANGED <<now, answered, settled, pending>> /\ entering' = FALSE
      BY <2>3 DEF BeginClosing
    <3>2. QED
      BY <3>1
  <2>4. QED
    BY <2>1, <2>2, <2>3 DEF CloseStep
<1>4. Drops /\ Answers
  BY <1>3 DEF Drops, Answers
<1>5. CASE BeginClosing(w)
  <2>1. PICK n, j : n = closings' /\ j = [at |-> "close.members", made |-> n]
    OBVIOUS
  <2>2. Becomes(w, j) /\ entering' = FALSE /\ promised' = promised
    BY <1>5, <2>1 DEF BeginClosing
  <2>3. j.at = "close.members"
    BY <2>1
  <2>4. Knows(j)'
    BY <2>2, <2>3 DEF Knows
  <2>5. QED
    BY <1>4, <2>2, <2>4, KnowsOne
<1>6. CASE CloseFails(w)
  BY <1>4, <1>6, NoneKnows, KnowsOne DEF CloseFails
<1>7. CASE CloseMembers(w)
  <2>1. PICK until, made, j :
          /\ until = now + NotifyMs
          /\ made = {[client |-> c, made |-> t.made, until |-> until, after |-> Never] : c \in members}
          /\ j = [at |-> "close.keep", until |-> until, notices |-> made, todo |-> made]
    OBVIOUS
  <2>2. t.at = "close.members" /\ Becomes(w, j) /\ UNCHANGED noticeVars
    BY <1>1, <1>7, <2>1 DEF CloseMembers, At
  <2>3. ~entering'
    BY <1>2, <2>2 DEF Knows, noticeVars
  <2>4. ASSUME NEW c \in answered' PROVE \E n \in j.todo : n.client = c
    <3>1. c \in members
      BY <2>2 DEF TInv, StoreFine, noticeVars
    <3>2. PICK n : n = [client |-> c, made |-> t.made, until |-> until, after |-> Never]
      OBVIOUS
    <3>3. n \in made /\ n.client = c
      BY <2>1, <3>1, <3>2
    <3>4. QED
      BY <2>1, <3>3
  <2>5. \A n \in j.todo : n.until = j.until
    BY <2>1
  <2>6. j.at = "close.keep"
    BY <2>1
  <2>7. Knows(j)'
    BY <2>3, <2>4, <2>5, <2>6 DEF Knows
  <2>8. QED
    BY <1>4, <2>2, <2>7, KnowsOne DEF noticeVars
<1>8. CASE CloseKeep(w)
  <2>1. t \in [at : {"close.keep"}, until : 1 .. Horizon, notices : SUBSET Dated, todo : SUBSET Dated] /\ t.at = "close.keep"
    BY <1>1, <1>2, <1>8, JobAt DEF CloseKeep, At
  <2>2. PICK n, j : n \in t.todo /\ pending' = pending \cup {n} /\ Becomes(w, j) /\ j = [t EXCEPT !.todo = @ \ {n}]
    BY <1>1, <1>8 DEF CloseKeep
  <2>3. j.at = "close.keep" /\ j.until = t.until /\ j.todo = t.todo \ {n}
    BY <2>1, <2>2
  <2>4. UNCHANGED <<now, entering, answered, settled, promised>>
    BY <1>8 DEF CloseKeep
  <2>5. ~entering' /\ (\A m \in t.todo : m.until = t.until) /\ t.until \in Nat
    BY <1>2, <2>1, <2>4, LoadFine DEF Knows
  <2>6. ASSUME NEW c \in answered' PROVE Covered(c, t.until)' \/ \E m \in j.todo : m.client = c
    <3>1. PICK u \in Nat : u = t.until
      BY <2>5
    <3>2. Covered(c, u) \/ \E m \in t.todo : m.client = c
      BY <1>2, <2>1, <2>4, <3>1 DEF Knows
    <3>3. Covered(c, u) => Covered(c, u)'
      BY <1>4, CoveredKept
    <3>4. n.client = c => Covered(c, u)'
      BY <2>2, <2>5, <3>1 DEF Covered
    <3>5. QED
      BY <2>3, <3>1, <3>2, <3>3, <3>4
  <2>7. Knows(j)'
    BY <2>3, <2>5, <2>6 DEF Knows
  <2>8. QED
    BY <1>4, <2>2, <2>4, <2>7, KnowsOne
<1>9. CASE CloseAnswer(w)
  <2>1. t \in [at : {"close.keep"}, until : 1 .. Horizon, notices : SUBSET Dated, todo : SUBSET Dated] /\ t.at = "close.keep"
    BY <1>1, <1>2, <1>9, JobAt DEF CloseAnswer, At
  <2>2. PICK early, j :
          /\ early = (phase[HostOf(w)] \in {"up", "stopping"})
          /\ j = [at |-> "next", todo |-> t.notices, kept |-> {}, shard |-> Shards, early |-> early]
    OBVIOUS
  <2>3. /\ t.todo = {} /\ Becomes(w, j) /\ promised' = (IF promised = 0 THEN t.until ELSE promised)
        /\ UNCHANGED <<now, entering, answered, pending, settled>>
    BY <1>1, <1>9, <2>2 DEF CloseAnswer
  <2>4. Knows(j)'
    <3>1. j.at = "next"
      BY <2>2
    <3>2. QED
      BY <3>1, KnowsNothing
  <2>5. Promise' \/ promised' = promised
    <3>1. PICK u : u = t.until
      OBVIOUS
    <3>2. ~entering /\ \A c \in answered : Covered(c, u)
      BY <1>2, <2>1, <2>3, <3>1 DEF Knows
    <3>3. promised' = u \/ promised' = promised
      BY <2>3, <3>1
    <3>4. QED
      BY <2>3, <3>2, <3>3 DEF Promise, Covered
  <2>6. QED
    BY <1>4, <2>3, <2>4, <2>5, KnowsOne
<1>10. QED
  BY <1>5, <1>6, <1>7, <1>8, <1>9 DEF CloseStep

LEMMA KnowsSends ==
  ASSUME TInv, TInv', KInv, load' = load, NEW w \in Worker, NextShard(w) \/ SendStep(w)
  PROVE  KInv'
<1>1. PICK t : t = job[w]
  OBVIOUS
<1>2. Knows(t) /\ t.at \in Sends
      /\ UNCHANGED <<periodicVars, awaited, now, members, entering, answered, closings, promised>>
  BY <1>1, SendKeeps DEF KInv
<1>3. /\ t.at = "next" =>
           t \in [at : {"next"}, todo : SUBSET Dated, kept : SUBSET Dated, shard : 0 .. Shards, early : BOOLEAN]
      /\ t.at \in Tries =>
           /\ t \in [at : Tries, todo : SUBSET Dated, kept : SUBSET Dated, shard : 0 .. Shards, early : BOOLEAN, notice : Dated]
           /\ t.notice.after <= now
  BY <1>1, <1>2, SendsBusy
<1>4. Answers /\ promised' = promised /\ now' = now
  BY <1>2 DEF Answers
<1>5. ASSUME NEW i, i = Resumed(t, {}) \/ i = Resumed(t, {Later(t.notice)}) PROVE Knows(i)'
  <2>1. i.at = "next"
    BY <1>5 DEF Resumed
  <2>2. QED
    BY <2>1, KnowsNothing
<1>6. CASE NextShard(w)
  <2>1. t \in [at : {"next"}, todo : SUBSET Dated, kept : SUBSET Dated, shard : 0 .. Shards, early : BOOLEAN]
    BY <1>1, <1>3, <1>6 DEF NextShard, At
  <2>2. PICK j : /\ Becomes(w, j)
                 /\ \/ j = [t EXCEPT !.todo = {n \in pending : ShardOf(n) = t.shard}, !.shard = @ + 1]
                    \/ j = [t EXCEPT !.shard = @ + 1]
    BY <1>1, <1>6 DEF NextShard
  <2>3. j.at = "next"
    BY <2>1, <2>2
  <2>4. Drops
    BY <1>6 DEF NextShard, Drops
  <2>5. QED
    BY <1>4, <2>2, <2>3, <2>4, KnowsNothing, KnowsOne
<1>7. CASE Send(w)
  <2>1. t \in [at : {"next"}, todo : SUBSET Dated, kept : SUBSET Dated, shard : 0 .. Shards, early : BOOLEAN]
    BY <1>1, <1>3, <1>7 DEF Send, At
  <2>2. PICK n, j : /\ Becomes(w, j) /\ (j = [t EXCEPT !.todo = @ \ {n}] \/ j = Trying(t, n))
                    /\ pending' = pending \/ (pending' = pending \ {n} /\ Expired(n))
    BY <1>1, <1>7 DEF Send
  <2>3. j.at \in {"next", "post"}
    BY <2>1, <2>2 DEF Trying
  <2>4. settled' = settled
    BY <1>7 DEF Send
  <2>5. Drops
    BY <1>4, <2>2, <2>4 DEF Drops, Followed, Expired
  <2>6. QED
    BY <1>4, <2>2, <2>3, <2>5, KnowsNothing, KnowsOne
<1>8. ASSUME SendPost(w) \/ SendSettle(w) \/ LaterAdd(w) \/ LaterDone(w)
      PROVE  /\ t \in [at : Tries, todo : SUBSET Dated, kept : SUBSET Dated, shard : 0 .. Shards, early : BOOLEAN, notice : Dated]
             /\ t.notice.after <= now
  BY <1>1, <1>3, <1>8 DEF SendPost, SendSettle, LaterAdd, LaterDone, At, Tries
<1>9. CASE SendPost(w)
  <2>1. PICK next, j :
          /\ Becomes(w, j) /\ j = [t EXCEPT !.at = next] /\ next \in {"settle", "later.add"}
          /\ settled \subseteq settled' /\ (next = "settle" => t.notice.client \in settled')
          /\ pending' = pending
    BY <1>1, <1>9 DEF SendPost, Goes
  <2>2. j.at = next /\ j.notice = t.notice
    BY <1>8, <1>9, <2>1
  <2>3. Drops
    BY <1>4, <2>1 DEF Drops
  <2>4. Knows(j)'
    BY <2>1, <2>2 DEF Knows
  <2>5. QED
    BY <1>4, <2>1, <2>3, <2>4, KnowsOne
<1>10. CASE SendSettle(w)
  <2>1. PICK j : /\ Becomes(w, j) /\ (j = Resumed(t, {}) \/ j = [t EXCEPT !.at = "later.add"])
                 /\ pending' = pending \/ pending' = pending \ {t.notice}
    BY <1>1, <1>10 DEF SendSettle, Goes
  <2>2. t.at = "settle" /\ settled' = settled
    BY <1>1, <1>10 DEF SendSettle, At
  <2>3. Drops
    BY <1>2, <1>4, <2>1, <2>2 DEF Drops, Followed, Knows
  <2>4. Knows(j)'
    <3>1. j = [t EXCEPT !.at = "later.add"] => j.at = "later.add"
      BY <1>8, <1>10
    <3>2. QED
      BY <1>5, <2>1, <3>1, KnowsNothing
  <2>5. QED
    BY <1>4, <2>1, <2>3, <2>4, KnowsOne
<1>11. CASE LaterAdd(w)
  <2>1. PICK n \in Dated : n = t.notice /\ n.after <= now
    BY <1>8, <1>11
  <2>2. PICK j : /\ Becomes(w, j)
                 /\ \/ j = [t EXCEPT !.at = "later.done"] /\ pending' = pending \cup {Later(n)}
                    \/ j = Resumed(t, {}) /\ pending' = pending
    BY <1>1, <1>11, <2>1 DEF LaterAdd, Goes
  <2>3. settled' = settled
    BY <1>11 DEF LaterAdd
  <2>4. Drops
    BY <1>4, <2>2, <2>3 DEF Drops
  <2>5. Knows(j)'
    <3>1. CASE j = [t EXCEPT !.at = "later.done"] /\ pending' = pending \cup {Later(n)}
      <4>1. j.at = "later.done" /\ j.notice = n
        BY <1>8, <1>11, <2>1, <3>1
      <4>2. Later(n).client = n.client /\ Later(n).until = n.until /\ Later(n).after > n.after
        BY <2>1, LaterFine
      <4>3. Followed(n)'
        BY <3>1, <4>2 DEF Followed
      <4>4. QED
        BY <4>1, <4>3 DEF Knows
    <3>2. QED
      BY <1>5, <2>2, <3>1
  <2>6. QED
    BY <1>4, <2>2, <2>4, <2>5, KnowsOne
<1>12. CASE LaterDone(w)
  <2>1. PICK n \in Dated : n = t.notice /\ n.after <= now
    BY <1>8, <1>12
  <2>2. PICK j : /\ Becomes(w, j) /\ (j = Resumed(t, {}) \/ j = Resumed(t, {Later(t.notice)}))
                 /\ pending' = pending \/ pending' = pending \ {n}
    BY <1>1, <1>12, <2>1 DEF LaterDone
  <2>3. t.at = "later.done" /\ settled' = settled
    BY <1>1, <1>12 DEF LaterDone, At
  <2>4. Followed(n)
    BY <1>2, <2>1, <2>3 DEF Knows
  <2>5. ASSUME pending' = pending \ {n} PROVE Followed(n)'
    <3>1. CASE n.client \in settled \/ now > n.until
      BY <1>4, <2>3, <3>1 DEF Followed
    <3>2. CASE \E m \in pending : m.client = n.client /\ m.until = n.until /\ m.after > n.after
      <4>1. PICK m \in pending : m.client = n.client /\ m.until = n.until /\ m.after > n.after
        BY <3>2
      <4>2. n.after \in Nat
        BY <2>1, Times
      <4>3. m # n
        BY <4>1, <4>2
      <4>4. QED
        BY <2>5, <4>1, <4>3 DEF Followed
    <3>3. QED
      BY <2>4, <3>1, <3>2 DEF Followed
  <2>6. Drops
    BY <1>4, <2>2, <2>3, <2>5 DEF Drops
  <2>7. QED
    BY <1>4, <1>5, <2>2, <2>6, KnowsOne
<1>13. QED
  BY <1>6, <1>7, <1>9, <1>10, <1>11, <1>12 DEF SendStep

(* What hosts and time do.                                                 *)
LEMMA KnowsHosts ==
  ASSUME TInv, TInv', KInv, load' = load,
         \/ \E w \in Worker : Over(w)
         \/ \E h \in Host : Sweep(h) \/ StopStep(h) \/ ProcessEnds(h) \/ Restarts(h)
         \/ Passes \/ UNCHANGED vars
  PROVE  KInv'
<1>1. UNCHANGED <<members, entering, answered, pending, settled, promised>> /\ now' \in {now, now + 1}
  BY DEF Over, Sweep, StopStep, StopHook, ProcessEnds, Restarts, Passes, vars, noticeVars
<1>2. Drops /\ Answers
  BY <1>1 DEF Drops, Answers
<1>3. \A v \in Worker : \A i : i = job'[v] => i = job[v] \/ Knows(i)'
  <2>1. CASE \E w \in Worker : Over(w)
    <3>1. \A v \in Worker : job'[v] \in {job[v], None}
      BY <2>1 DEF Over, Becomes, TInv
    <3>2. QED
      BY <3>1, NoneKnows
  <2>2. CASE \E h \in Host : Sweep(h)
    <3>1. PICK j : /\ j = [at |-> "next", todo |-> {}, kept |-> {}, shard |-> 0, early |-> TRUE]
                   /\ \A v \in Worker : job'[v] \in {job[v], j}
      BY <2>2, Workers DEF Sweep, Becomes, TInv
    <3>2. j.at = "next"
      BY <3>1
    <3>3. QED
      BY <3>1, <3>2, KnowsNothing
  <2>3. CASE \E h \in Host : ProcessEnds(h)
    <3>1. \A v \in Worker : job'[v] \in {job[v], None}
      BY <2>3 DEF ProcessEnds
    <3>2. QED
      BY <3>1, NoneKnows
  <2>4. CASE Passes \/ UNCHANGED vars \/ \E h \in Host : StopStep(h) \/ Restarts(h)
    BY <2>4 DEF Passes, vars, StopStep, StopHook, Restarts
  <2>5. QED
    BY <2>1, <2>2, <2>3, <2>4
<1>4. QED
  BY <1>1, <1>2, <1>3, KnowsStep

(* Once the participant finished, every client the session's redemptions   *)
(* answered hears of the close: its notice is settled, or one is kept for  *)
(* it until the end it was given, whatever stopped or failed and whichever *)
(* hosts put one off at once (notices.ts later; rp-logout's closing).      *)
THEOREM NobodyForgotten == Spec => []NoneForgotten
<1>1. Init => KInv
  BY DEF Init, KInv, Promise, Knows, None
<1>2. TInv /\ TInv' /\ KInv /\ [Next]_vars => KInv'
  <2> SUFFICES ASSUME TInv, TInv', KInv, [Next]_vars PROVE KInv'
    OBVIOUS
  <2>1. load' = load
    BY DEF Next, vars
  <2>2. CASE \E w \in Worker : Work(w) \/ CloseFails(w)
    BY <2>1, <2>2, KnowsRedeem, KnowsClose, KnowsSends, KnowsHosts DEF Work
  <2>3. CASE \E h \in load.serving : BeginRedeem(RequestOf(h)) \/ BeginClosing(RequestOf(h))
    BY <2>1, <2>3, KnowsRedeem, KnowsClose, Workers, LoadFine
  <2>4. CASE \/ \E h \in load.sweeping : Sweep(h)
             \/ \E h \in load.serving \cup load.sweeping : StopStep(h) \/ ProcessEnds(h) \/ Restarts(h)
             \/ Passes \/ UNCHANGED vars
    BY <2>1, <2>4, KnowsHosts, LoadFine
  <2>5. QED
    BY <2>2, <2>3, <2>4 DEF Next
<1>3. KInv => NoneForgotten
  BY DEF KInv, Promise, Covered, NoneForgotten
<1>4. QED
  BY <1>1, <1>2, <1>3, AlwaysTyped, PTL DEF Spec
=============================================================================
