-------------------------- MODULE ReplicatedStore --------------------------
(***************************************************************************)
(* The store that holds one record, as modules/foundation/store promises   *)
(* it: memory.ts says what one operation does to what a node holds, and    *)
(* simulated.ts how a primary and a replica answer, confirm, fail over and *)
(* forget.  A record has a partition of its own, so records do not disturb *)
(* each other and one record stands for each of them.                      *)
(*                                                                         *)
(* Writes are sent under an idempotency mark and a deadline.  A mark is    *)
(* drawn at random for one request and never again (records.ts markFrom),  *)
(* so a mark is the place of its request in `requests`: a resend is the    *)
(* same request under the same mark, and the answer "reused" cannot occur. *)
(***************************************************************************)
EXTENDS Integers, Sequences

CONSTANTS
  Value,        \* the values a record can hold
  Absent,       \* what a key holds when it holds no record
  Spaces,       \* the spaces a record may be kept in: see `space`
  Skew          \* idempotencySkewMs: how long past its deadline a mark is kept

ASSUME StoreAssumption ==
  /\ Absent \notin Value
  /\ Skew \in Nat \ {0}

VARIABLES
  space,        \* the record's space, which never changes: the guarantees it declares,
                \* the calls made of its record, and the bounds of what happens to it
  primary,      \* what the primary holds: record, remembered answers, writes made
  replica,      \* what the replica holds: the primary as it was last confirmed
  lastVersion,  \* the count versions are named from; a failover never repeats one
  now,          \* the store clock
  failovers,    \* how often the replica took over
  requests,     \* every request drawn so far; its place here is its mark
  adrift        \* marks of sends nobody waits for that may still reach the primary

storeVars == <<primary, replica, lastVersion, now, failovers, requests, adrift>>

Never == -1     \* an expiry that does not come
Keeping == -2   \* a lifetime: the record keeps the expiry it has
Endless == -1   \* a lifetime: the record never expires

NoRecord == [value |-> Absent, version |-> 0, ends |-> Never]
Empty == [held |-> NoRecord, seen |-> <<>>, log |-> <<>>]

Marks == 1..Len(requests)

Written == {"written", "taken", "committed"}
Refused == {"exists", "missing", "conflict", "late"}

(* What a node holds now: a record is expired at exactly its expiry.       *)
Live(s) ==
  IF s.held.ends # Never /\ s.held.ends <= now THEN NoRecord ELSE s.held

(* Broken: a kept expiry is reckoned as a lifetime.                        *)
ResolveExpiryLiterally(life, held) == IF life = Endless THEN Never ELSE now + life

ResolveExpiry(life, held) ==
  CASE life = Endless -> Never
    [] life = Keeping -> held.ends
    [] OTHER          -> now + life

(* Broken: a replace does not compare versions.                            *)
OutcomeBlind(s, r) ==
  LET held == Live(s) IN
  CASE r.kind = "put"     -> IF held = NoRecord THEN "written" ELSE "exists"
    [] r.kind = "replace" -> IF held = NoRecord THEN "missing" ELSE "written"
    [] r.kind = "take"    -> IF held = NoRecord THEN "missing" ELSE "taken"
    [] r.kind = "settle"  -> "committed"

(* What one operation answers, decided on what the node holds now.         *)
Outcome(s, r) ==
  LET held == Live(s) IN
  CASE r.kind = "put"     -> IF held = NoRecord THEN "written" ELSE "exists"
    [] r.kind = "replace" -> IF held = NoRecord THEN "missing"
                             ELSE IF held.version = r.version THEN "written"
                             ELSE "conflict"
    [] r.kind = "take"    -> IF held = NoRecord THEN "missing" ELSE "taken"
    [] r.kind = "settle"  -> IF held.version = r.version THEN "committed"
                             ELSE "conflict"

(* A mark is remembered with its first answer until its end passes.        *)
Remembered(s, m) == m \in DOMAIN s.seen /\ s.seen[m].until > now

(* Broken: a deadline is stretched as long as its mark is kept.            *)
LateAfterSkew(m) == now > requests[m].deadline + Skew

Late(m) == now > requests[m].deadline

Answer(s, m) ==
  IF Remembered(s, m) THEN s.seen[m].answer
  ELSE IF Late(m) THEN "late"
  ELSE Outcome(s, requests[m])

(* What the record's key holds once the request took effect.               *)
HeldAfter(s, r, version) ==
  CASE r.kind \in {"put", "replace"} ->
         [value |-> r.value, version |-> version, ends |-> ResolveExpiry(r.life, Live(s))]
    [] r.kind = "take"   -> NoRecord
    [] r.kind = "settle" -> Live(s)

(* The entry a write leaves in the node's history: what its sender decided *)
(* on (what was there, for a take, which decides on nothing) and what it   *)
(* left.                                                                   *)
Entry(s, m, version) ==
  LET r == requests[m]
      after == HeldAfter(s, r, version)
  IN  [mark  |-> m,
       base  |-> IF r.kind = "take" THEN Live(s).value ELSE r.base,
       after |-> after.value,
       ends  |-> after.ends,
       version |-> after.version,
       at    |-> now]

(* Broken: a node names versions from what it holds.                       *)
NextOfNode == primary.held.version + 1

NextVersion == lastVersion + 1

(* Broken: a mark is kept to its deadline only, not past it.               *)
RememberToDeadline(s, m, answer) ==
  [x \in DOMAIN s.seen \cup {m} |->
     IF x = m THEN [answer |-> answer, until |-> requests[m].deadline] ELSE s.seen[x]]

Remember(s, m, answer) ==
  [x \in DOMAIN s.seen \cup {m} |->
     IF x = m THEN [answer |-> answer, until |-> requests[m].deadline + Skew]
     ELSE s.seen[x]]

(* The node once it took the request: nothing changes where the mark is    *)
(* remembered; else the answer is kept, a refusing one too, and a write    *)
(* takes effect.                                                           *)
Guarded(s, m) ==
  LET answer == Answer(s, m) IN
  IF Remembered(s, m) THEN s
  ELSE IF answer \in Written
  THEN [held |-> HeldAfter(s, requests[m], NextVersion),
        seen |-> Remember(s, m, answer),
        log  |-> Append(s.log, Entry(s, m, NextVersion))]
  ELSE [s EXCEPT !.seen = Remember(s, m, answer)]

(* Whether the store confirms an answer before it gives it.                *)
Confirms(answer) ==
  IF answer \in Written THEN "replicated" \in space.guarantees
  ELSE "confirmed-reads" \in space.guarantees

(* The primary takes the request under mark m.                             *)
Apply(m) ==
  /\ primary' = Guarded(primary, m)
  /\ lastVersion' = IF ~Remembered(primary, m) /\ Answer(primary, m) \in {"written", "committed"}
                    THEN NextVersion ELSE lastVersion

(* Brings the replica up to everything the primary holds.                  *)
Confirm == replica' = primary

StoreInit ==
  /\ space \in Spaces
  /\ primary = Empty
  /\ replica = Empty
  /\ lastVersion = 0
  /\ now = 0
  /\ failovers = 0
  /\ requests = <<>>
  /\ adrift = {}

Tick ==
  /\ now < space.maxNow
  /\ now' = now + 1
  /\ UNCHANGED <<primary, replica, lastVersion, failovers, requests, adrift>>
=============================================================================
