---------------------------- MODULE RenewalProofs ----------------------------
(***************************************************************************)
(* What the run of MCUpstreamRenewal shows for a few requests, proved for  *)
(* any number of requests, logins, refresh tokens and troubles.            *)
(*                                                                         *)
(* That tokens taken out of a session's record are never brought back      *)
(* leaves the lock aside, as it may: an answer of the upstream is written  *)
(* only over the very entry it was renewed from, of the same login; and a  *)
(* login's receive, which writes over anything, writes once an entry of a  *)
(* login that was never in the record.  That rotated tokens are sent again *)
(* only so often as there was trouble is where the lock comes in: it is an *)
(* account of what each trouble may still cost.                            *)
(***************************************************************************)
EXTENDS UpstreamRenewal, FiniteSetTheorems, TLAPS

Renewals == {"current.find", "current.hold", "current.again", "renew.ask", "renew.held", "current.release"}
Receives == {"receive.keep", "receive.life", "receive.save"}
Rewriting == {"rewrite.life", "rewrite.update"}
Named == {"next", "over", "then", "else"}

(* What an entry may be renewed to.                                        *)
Renewed(e, next) == next = Empty \/ \E t : next = Entry(e.login, t)

(* A login's entry not yet written.                                        *)
Receiving(j) == j.at \in Receives \/ (j.at \in Rewriting /\ j.then = "receive.check")

(* What a write is for: an entry taken out, a renewal's or a login's.      *)
Purpose(j) ==
  \/ /\ j.next = Empty
     /\ j.then \in {"end", "current.release"} /\ j.else \in {"end", "forget.life", "current.release"}
  \/ /\ Linked(j.over) /\ Renewed(j.over, j.next)
     /\ j.then = "current.release" /\ j.else = "current.release"
  \/ /\ {"entry", "attempts"} \subseteq DOMAIN j
     /\ j.next = j.entry /\ j.then = "receive.check" /\ j.else = "receive.life"

JobFine(j) ==
  /\ "at" \in DOMAIN j
  /\ j.at \in Renewals \ {"current.release"} => {"read", "next"} \subseteq DOMAIN j
  /\ j.at \in {"renew.ask", "renew.held"} => Linked(j.read)
  /\ j.at = "renew.held" => Renewed(j.read, j.next)
  /\ j.at \in Receives => {"entry", "attempts"} \subseteq DOMAIN j
  /\ j.at \in Rewriting => Named \subseteq DOMAIN j /\ Purpose(j)

(* A login's entry is of no login the record had, nor of another request's *)
(* login.                                                                  *)
Unwritten(w) ==
  Receiving(job[w]) =>
    /\ Linked(job[w].entry) /\ job[w].entry.login \in 1 .. logins
    /\ job[w].entry.login \notin removed
    /\ Linked(record) => record.login # job[w].entry.login
    /\ \A v \in Worker \ {w} : Receiving(job[v]) => job[v].entry.login # job[w].entry.login

LInv ==
  /\ logins \in Nat /\ removed \subseteq 1 .. logins
  /\ Linked(record) => record.login \in 1 .. logins
  /\ NeverBroughtBack
  /\ DOMAIN job = Worker
  /\ \A w \in Worker : JobFine(job[w]) /\ Unwritten(w)

----------------------------------------------------------------------------
LEMMA Entries ==
  /\ \A l, t : Linked(Entry(l, t)) /\ Entry(l, t).login = l
  /\ ~Linked(Gone) /\ ~Linked(Empty) /\ Empty # Gone
BY DEF Linked, Entry, Gone, Empty

(* What a request does next, and what its step makes of the record: of the *)
(* same login, or of the login it received and is done writing.            *)
LEMMA JobStep ==
  ASSUME LInv, NEW w \in Worker, NEW j, Becomes(w, j), JobFine(j),
         logins' \in Nat, logins <= logins',
         NEW r, record' = r, Removing(r),
         Linked(r) =>
           \/ Linked(record) /\ r.login = record.login
           \/ Receiving(job[w]) /\ ~Receiving(j) /\ r.login = job[w].entry.login,
         Receiving(j) =>
           \/ Receiving(job[w]) /\ j.entry = job[w].entry
           \/ Linked(j.entry) /\ j.entry.login = logins + 1 /\ logins' = logins + 1
  PROVE  LInv'
<1> DEFINE gone == IF Linked(record) /\ (~Linked(r) \/ r.login # record.login) THEN {record.login} ELSE {}
<1>1. removed' = removed \cup gone
  BY DEF Removing
<1>2. gone \subseteq 1 .. logins /\ (gone # {} => Linked(record) /\ gone = {record.login})
  BY DEF LInv
<1>3. job'[w] = j /\ DOMAIN job' = Worker /\ \A v \in Worker \ {w} : job'[v] = job[v]
  BY DEF Becomes, LInv
<1>4. removed' \subseteq 1 .. logins'
  <2>1. 1 .. logins \subseteq 1 .. logins'
    BY DEF LInv
  <2>2. removed \subseteq 1 .. logins
    BY DEF LInv
  <2> HIDE DEF gone
  <2> QED
    BY <1>1, <1>2, <2>1, <2>2
<1>5. Receiving(job[w]) =>
        /\ Linked(job[w].entry) /\ job[w].entry.login \in 1 .. logins
        /\ job[w].entry.login \notin removed
        /\ Linked(record) => record.login # job[w].entry.login
        /\ \A v \in Worker \ {w} : Receiving(job[v]) => job[v].entry.login # job[w].entry.login
  BY DEF LInv, Unwritten
<1>6. Linked(r) => r.login \in 1 .. logins' /\ r.login \notin removed'
  <2>1. CASE Linked(r) /\ Linked(record) /\ r.login = record.login
    BY <2>1, <1>1 DEF LInv, NeverBroughtBack
  <2>2. CASE Linked(r) /\ Receiving(job[w]) /\ r.login = job[w].entry.login
    BY <2>2, <1>1, <1>2, <1>5 DEF LInv
  <2> QED
    BY <2>1, <2>2
<1>7. ASSUME NEW v \in Worker \ {w} PROVE JobFine(job[v])' /\ Unwritten(v)'
  <2>1. JobFine(job'[v])
    BY <1>3 DEF LInv
  <2>2. ASSUME Receiving(job[v])
        PROVE  /\ Linked(job[v].entry) /\ job[v].entry.login \in 1 .. logins'
               /\ job[v].entry.login \notin removed'
               /\ Linked(r) => r.login # job[v].entry.login
               /\ Receiving(j) => j.entry.login # job[v].entry.login
               /\ \A u \in Worker \ {v, w} : Receiving(job[u]) => job[u].entry.login # job[v].entry.login
    <3>1. /\ Linked(job[v].entry) /\ job[v].entry.login \in 1 .. logins
          /\ job[v].entry.login \notin removed
          /\ Linked(record) => record.login # job[v].entry.login
          /\ \A u \in Worker \ {v} : Receiving(job[u]) => job[u].entry.login # job[v].entry.login
      BY <2>2 DEF LInv, Unwritten
    <3>2. job[v].entry.login \notin removed'
      BY <3>1, <1>1, <1>2
    <3>3. Linked(r) => r.login # job[v].entry.login
      BY <3>1
    <3>4. Receiving(j) => j.entry.login # job[v].entry.login
      BY <3>1 DEF LInv
    <3> QED
      BY <3>1, <3>2, <3>3, <3>4 DEF LInv
  <2> QED
    BY <2>1, <2>2, <1>3 DEF Unwritten
<1>8. JobFine(job[w])' /\ Unwritten(w)'
  <2>1. ASSUME Receiving(j)
        PROVE  /\ Linked(j.entry) /\ j.entry.login \in 1 .. logins'
               /\ j.entry.login \notin removed'
               /\ Linked(r) => r.login # j.entry.login
               /\ \A v \in Worker \ {w} : Receiving(job[v]) => job[v].entry.login # j.entry.login
    <3>1. CASE Receiving(job[w]) /\ j.entry = job[w].entry
      BY <2>1, <3>1, <1>1, <1>2, <1>5 DEF LInv
    <3>2. CASE Linked(j.entry) /\ j.entry.login = logins + 1 /\ logins' = logins + 1
      <4>1. j.entry.login \notin 1 .. logins /\ j.entry.login \in 1 .. logins'
        BY <3>2 DEF LInv
      <4>2. \A v \in Worker : Receiving(job[v]) => job[v].entry.login \in 1 .. logins
        BY DEF LInv, Unwritten
      <4>3. Linked(r) => r.login \in 1 .. logins
        BY <1>5, <4>2 DEF LInv
      <4> QED
        BY <3>2, <4>1, <4>2, <4>3, <1>1, <1>2 DEF LInv
    <3> QED
      BY <2>1, <3>1, <3>2
  <2> QED
    BY <2>1, <1>3 DEF Unwritten
<1>9. NeverBroughtBack' /\ (Linked(record)' => record'.login \in 1 .. logins')
  BY <1>6 DEF NeverBroughtBack, Linked
<1> QED
  BY <1>3, <1>4, <1>7, <1>8, <1>9 DEF LInv

(* A step that leaves the record as it is.                                 *)
LEMMA JobOnly ==
  ASSUME LInv, NEW w \in Worker, NEW j, Becomes(w, j), JobFine(j), UNCHANGED <<record, removed, logins>>,
         Receiving(j) => Receiving(job[w]) /\ j.entry = job[w].entry
  PROVE  LInv'
<1>1. Removing(record)
  BY DEF Removing
<1>2. logins \in Nat /\ logins <= logins' /\ logins' \in Nat
  BY DEF LInv
<1> QED
  BY <1>1, <1>2, JobStep

LEMMA StillLInv ==
  ASSUME LInv, UNCHANGED <<record, removed, logins, job>>
  PROVE  LInv'
<1>1. \A w \in Worker : JobFine(job[w])' /\ Unwritten(w)'
  BY DEF LInv, JobFine, Purpose, Renewed, Unwritten, Receiving, Linked
<1> QED
  BY <1>1 DEF LInv, NeverBroughtBack, Linked

----------------------------------------------------------------------------
(* Where a request goes that neither renews, receives nor writes.          *)
Aside == {"none", "end", "current.release", "receive.check", "forget", "forget.life", "forget.remove",
          "disconnect.find", "close.remove"}

LEMMA AsideFine ==
  ASSUME NEW j, "at" \in DOMAIN j, j.at \in Aside
  PROVE  JobFine(j) /\ ~Receiving(j)
BY DEF Aside, JobFine, Receiving, Receives, Renewals, Rewriting

LEMMA GoesAside ==
  ASSUME LInv, NEW w \in Worker, NEW at \in Aside, Goes(w, at), UNCHANGED <<record, removed, logins>>
  PROVE  LInv'
<1> DEFINE j == [job[w] EXCEPT !.at = at]
<1>1. "at" \in DOMAIN j /\ j.at = at
  BY DEF LInv, JobFine
<1> HIDE DEF j
<1>2. JobFine(j) /\ ~Receiving(j)
  BY <1>1, AsideFine
<1>3. Becomes(w, j)
  BY DEF Goes, j
<1> QED
  BY <1>2, <1>3, JobOnly

LEMMA NoneFine == JobFine(None) /\ ~Receiving(None)
<1>1. "at" \in DOMAIN None /\ None.at \in Aside
  BY DEF None, Aside
<1> QED
  BY <1>1, AsideFine

LEMMA EndsFine ==
  ASSUME LInv, NEW w \in Worker, Ends(w), UNCHANGED <<record, removed, logins>>
  PROVE  LInv'
BY NoneFine, JobOnly DEF Ends

LEMMA RewriteIs ==
  ASSUME NEW j, NEW next, NEW over, NEW then, NEW else, "at" \in DOMAIN j
  PROVE  LET r == Rewrite(j, next, over, then, else) IN
         /\ "at" \in DOMAIN r /\ Named \subseteq DOMAIN r /\ DOMAIN j \subseteq DOMAIN r
         /\ r.at = "rewrite.life" /\ r.next = next /\ r.over = over /\ r.then = then /\ r.else = else
         /\ \A f \in DOMAIN j \ (Named \cup {"at"}) : r[f] = j[f]
BY DEF Rewrite, Named

LEMMA CallingIs ==
  ASSUME NEW j, NEW at, "at" \in DOMAIN j
  PROVE  LET r == Calling(j, at) IN
         /\ "at" \in DOMAIN r /\ r.at = at
         /\ \A f \in DOMAIN j \ (Named \cup {"at"}) : f \in DOMAIN r /\ r[f] = j[f]
BY DEF Calling, Named

(* Where the caller of a write goes on.                                    *)
LEMMA CallingFine ==
  ASSUME NEW j, JobFine(j), j.at \in Rewriting,
         NEW at, at \in {j.then, j.else}
  PROVE  LET r == Calling(j, at) IN
         /\ JobFine(r)
         /\ Receiving(r) => at = j.else /\ j.else = "receive.life" /\ Receiving(j) /\ r.entry = j.entry
<1> DEFINE r == Calling(j, at)
<1>1. "at" \in DOMAIN j /\ Purpose(j)
  BY DEF JobFine
<1>2. /\ "at" \in DOMAIN r /\ r.at = at
      /\ \A f \in DOMAIN j \ (Named \cup {"at"}) : f \in DOMAIN r /\ r[f] = j[f]
  BY <1>1, CallingIs
<1> HIDE DEF r
<1>3. CASE at \in Aside
  BY <1>2, <1>3, AsideFine DEF r
<1>4. CASE at \notin Aside
  <2>1. /\ {"entry", "attempts"} \subseteq DOMAIN j
        /\ j.then = "receive.check" /\ j.else = "receive.life" /\ at = j.else
    BY <1>1, <1>4 DEF Purpose, Aside
  <2>2. {"entry", "attempts"} \subseteq DOMAIN r /\ r.entry = j.entry
    BY <1>2, <2>1 DEF Named
  <2>3. JobFine(r)
    BY <1>2, <2>1, <2>2 DEF JobFine, Renewals, Rewriting, Receives
  <2>4. Receiving(j)
    BY <2>1 DEF Receiving
  <2> QED
    BY <2>1, <2>2, <2>3, <2>4 DEF r
<1> QED
  BY <1>3, <1>4

LEMMA RewriteLInv ==
  ASSUME LInv, NEW w \in Worker, RewriteStep(w)
  PROVE  LInv'
<1> DEFINE j == job[w]
<1>1. JobFine(j) /\ "at" \in DOMAIN j
  BY DEF LInv, JobFine
<1>2. CASE RewriteLife(w)
  <2>1. j.at = "rewrite.life" /\ UNCHANGED <<record, removed, logins>>
    BY <1>2 DEF RewriteLife, At
  <2>2. CASE Goes(w, "rewrite.update")
    <3> DEFINE r == [j EXCEPT !.at = "rewrite.update"]
    <3>1. /\ DOMAIN r = DOMAIN j /\ r.at = "rewrite.update"
          /\ r.next = j.next /\ r.over = j.over /\ r.then = j.then /\ r.else = j.else /\ r.entry = j.entry
      BY <1>1
    <3>2. Becomes(w, r)
      BY <2>2 DEF Goes
    <3> HIDE DEF r
    <3>3. JobFine(r)
      BY <1>1, <2>1, <3>1 DEF JobFine, Purpose, Rewriting, Renewals, Receives
    <3>4. Receiving(r) => Receiving(j)
      BY <2>1, <3>1 DEF Receiving, Rewriting, Receives
    <3> QED
      BY <2>1, <3>1, <3>2, <3>3, <3>4, JobOnly
  <2>3. CASE Becomes(w, Calling(j, j.else))
    <3>1. JobFine(Calling(j, j.else)) /\ (Receiving(Calling(j, j.else)) => Receiving(j) /\ Calling(j, j.else).entry = j.entry)
      BY <1>1, <2>1, CallingFine DEF Rewriting
    <3> QED
      BY <2>1, <2>3, <3>1, JobOnly
  <2> QED
    BY <1>2, <2>2, <2>3 DEF RewriteLife
<1>3. CASE RewriteUpdate(w)
  <2> DEFINE r == Written(j, record)
             at == IF r = j.next THEN j.then ELSE j.else
  <2>1. j.at = "rewrite.update" /\ record' = r /\ Removing(r) /\ Becomes(w, Calling(j, at)) /\ logins' = logins
    BY <1>3 DEF RewriteUpdate, At
  <2>2. Purpose(j)
    BY <1>1, <2>1 DEF JobFine, Rewriting
  <2>3. /\ JobFine(Calling(j, at))
        /\ Receiving(Calling(j, at)) =>
             at = j.else /\ j.else = "receive.life" /\ Receiving(j) /\ Calling(j, at).entry = j.entry
    BY <1>1, <2>1, CallingFine DEF Rewriting
  <2>4. r = j.next \/ r = record
    BY DEF Written
  <2>5. r = j.next /\ r # record => j.over = Gone \/ j.over = record
    BY DEF Written
  <2> HIDE DEF r
  <2>6. Linked(r) =>
          \/ Linked(record) /\ r.login = record.login
          \/ Receiving(j) /\ ~Receiving(Calling(j, at)) /\ r.login = j.entry.login
    <3> SUFFICES ASSUME Linked(r), r = j.next, r # record
                 PROVE  \/ Linked(record) /\ r.login = record.login
                        \/ Receiving(j) /\ ~Receiving(Calling(j, at)) /\ r.login = j.entry.login
      BY <2>4
    <3>1. CASE Linked(j.over) /\ Renewed(j.over, j.next)
      <4>1. j.over = record /\ j.next # Empty
        BY <2>5, <3>1, Entries
      <4> QED
        BY <3>1, <4>1, Entries DEF Renewed
    <3>2. CASE j.next = j.entry /\ j.then = "receive.check" /\ j.else = "receive.life"
      <4>1. Receiving(j)
        BY <2>1, <3>2 DEF Receiving, Rewriting
      <4>2. at # j.else
        BY <3>2
      <4> QED
        BY <2>3, <3>2, <4>1, <4>2
    <3>3. j.next # Empty
      BY Entries
    <3> QED
      BY <2>2, <3>1, <3>2, <3>3 DEF Purpose
  <2>7. logins \in Nat /\ logins' \in Nat /\ logins <= logins'
    BY <2>1 DEF LInv
  <2> HIDE DEF at
  <2> QED
    BY <2>1, <2>3, <2>6, <2>7, JobStep
<1> QED
  BY <1>2, <1>3 DEF RewriteStep

LEMMA CurrentLInv ==
  ASSUME LInv, NEW w \in Worker, CurrentStep(w)
  PROVE  LInv'
<1> DEFINE j == job[w]
<1>1. JobFine(j) /\ "at" \in DOMAIN j
  BY DEF LInv, JobFine
<1>2. UNCHANGED <<record, removed, logins>>
  BY DEF CurrentStep, CurrentFind, CurrentHold, CurrentAgain, RenewAsk, RenewHeld, CurrentRelease
<1>3. ASSUME NEW r, Becomes(w, r), "at" \in DOMAIN r, r.at \in Renewals, {"read", "next"} \subseteq DOMAIN r,
             r.at \in {"renew.ask", "renew.held"} => Linked(r.read),
             r.at = "renew.held" => Renewed(r.read, r.next)
      PROVE  LInv'
  <2>1. JobFine(r) /\ ~Receiving(r)
    BY <1>3 DEF JobFine, Receiving, Renewals, Rewriting, Receives
  <2> QED
    BY <1>2, <1>3, <2>1, JobOnly
<1>10. CASE Goes(w, "current.release")
  BY <1>2, <1>10, GoesAside DEF Aside
<1>11. CASE Ends(w)
  BY <1>2, <1>11, EndsFine
<1>4. CASE CurrentFind(w)
  <2>1. {"read", "next"} \subseteq DOMAIN j
    BY <1>1, <1>4 DEF CurrentFind, At, JobFine, Renewals
  <2>2. CASE Becomes(w, [j EXCEPT !.at = "current.hold", !.read = record])
    BY <1>1, <2>1, <2>2, <1>3 DEF Renewals
  <2> QED
    BY <1>4, <2>2, <1>11 DEF CurrentFind
<1>5. CASE CurrentHold(w)
  <2>1. {"read", "next"} \subseteq DOMAIN j
    BY <1>1, <1>5 DEF CurrentHold, At, JobFine, Renewals
  <2>2. CASE Goes(w, "current.again")
    BY <1>1, <2>1, <2>2, <1>3 DEF Renewals, Goes
  <2> QED
    BY <1>5, <2>2, <1>11 DEF CurrentHold
<1>6. CASE CurrentAgain(w)
  <2>1. {"read", "next"} \subseteq DOMAIN j
    BY <1>1, <1>6 DEF CurrentAgain, At, JobFine, Renewals
  <2>2. CASE Linked(record) /\ Becomes(w, [j EXCEPT !.at = "renew.ask", !.read = record])
    BY <1>1, <2>1, <2>2, <1>3 DEF Renewals
  <2> QED
    BY <1>6, <2>2, <1>10 DEF CurrentAgain
<1>7. CASE RenewAsk(w)
  <2>1. {"read", "next"} \subseteq DOMAIN j /\ Linked(j.read)
    BY <1>1, <1>7 DEF RenewAsk, At, JobFine, Renewals
  <2>2. ASSUME NEW next, Answered(w, next), Renewed(j.read, next) PROVE LInv'
    <3> DEFINE r == [j EXCEPT !.at = "renew.held", !.next = next]
    <3>1. DOMAIN r = DOMAIN j /\ r.at = "renew.held" /\ r.next = next /\ r.read = j.read
      BY <1>1, <2>1
    <3>2. Becomes(w, r)
      BY <2>2 DEF Answered
    <3> HIDE DEF r
    <3> QED
      BY <1>1, <2>1, <2>2, <3>1, <3>2, <1>3 DEF Renewals
  <2>3. Renewed(j.read, Empty) /\ \A t : Renewed(j.read, Entry(j.read.login, t))
    BY DEF Renewed
  <2> QED
    BY <1>7, <2>2, <2>3, <1>10 DEF RenewAsk
<1>8. CASE RenewHeld(w)
  <2>1. Linked(j.read) /\ Renewed(j.read, j.next)
    BY <1>1, <1>8 DEF RenewHeld, At, JobFine
  <2>2. CASE Becomes(w, Rewrite([at |-> "none", read |-> j.read], j.next, j.read, "current.release", "current.release"))
    <3> DEFINE old == [at |-> "none", read |-> j.read]
               r == Rewrite(old, j.next, j.read, "current.release", "current.release")
    <3>1. /\ "at" \in DOMAIN r /\ Named \subseteq DOMAIN r /\ r.at = "rewrite.life" /\ r.next = j.next
          /\ r.over = j.read /\ r.then = "current.release" /\ r.else = "current.release"
      BY RewriteIs
    <3>2. Becomes(w, r)
      BY <2>2
    <3> HIDE DEF r
    <3>3. JobFine(r) /\ ~Receiving(r)
      BY <2>1, <3>1 DEF JobFine, Receiving, Purpose, Renewals, Rewriting, Receives
    <3> QED
      BY <1>2, <3>2, <3>3, JobOnly
  <2> QED
    BY <1>8, <2>2, <1>10 DEF RenewHeld
<1>9. CASE CurrentRelease(w)
  BY <1>9, <1>11 DEF CurrentRelease
<1> QED
  BY <1>4, <1>5, <1>6, <1>7, <1>8, <1>9 DEF CurrentStep

LEMMA KeepLInv ==
  ASSUME LInv, NEW w \in Worker, KeepStep(w)
  PROVE  LInv'
<1> DEFINE j == job[w]
<1>1. JobFine(j) /\ "at" \in DOMAIN j
  BY DEF LInv, JobFine
<1>2. logins' = logins /\ logins \in Nat /\ logins <= logins'
  BY DEF KeepStep, ReceiveKeep, ReceiveLife, ReceiveSave, ReceiveCheck, Forget, ForgetLife, ForgetRemove,
         DisconnectFind, CloseRemove, Over, LInv
<1>3. ASSUME NEW over, NEW then, NEW else, then = "end", else \in {"end", "forget.life"},
             Becomes(w, Rewrite(j, Empty, over, then, else)), UNCHANGED <<record, removed>>
      PROVE  LInv'
  <2> DEFINE r == Rewrite(j, Empty, over, then, else)
  <2>1. /\ "at" \in DOMAIN r /\ Named \subseteq DOMAIN r
        /\ r.at = "rewrite.life" /\ r.next = Empty /\ r.over = over /\ r.then = then /\ r.else = else
    BY <1>1, RewriteIs
  <2>2. Becomes(w, r)
    BY <1>3
  <2> HIDE DEF r
  <2>3. JobFine(r) /\ ~Receiving(r)
    BY <1>3, <2>1 DEF JobFine, Receiving, Purpose, Renewals, Rewriting, Receives
  <2> QED
    BY <1>2, <1>3, <2>2, <2>3, JobOnly
<1>4. ASSUME NEW at \in Receives, j.at \in Receives, Goes(w, at), UNCHANGED <<record, removed>>
      PROVE  LInv'
  <2> DEFINE r == [j EXCEPT !.at = at]
  <2>1. {"entry", "attempts"} \subseteq DOMAIN j
    BY <1>1, <1>4 DEF JobFine
  <2>2. DOMAIN r = DOMAIN j /\ r.at = at /\ r.entry = j.entry
    BY <1>1, <1>4, <2>1 DEF Receives
  <2>3. Becomes(w, r)
    BY <1>4 DEF Goes
  <2> HIDE DEF r
  <2>4. JobFine(r)
    BY <1>1, <1>4, <2>1, <2>2 DEF JobFine, Renewals, Receives, Rewriting
  <2>5. Receiving(j)
    BY <1>4 DEF Receiving
  <2> QED
    BY <1>2, <1>4, <2>2, <2>3, <2>4, <2>5, JobOnly
(* Taken out with the whole record, or written as its first entry.         *)
<1>5. ASSUME record' = Gone, Removing(Gone), Ends(w)
      PROVE  LInv'
  <2>1. Becomes(w, None)
    BY <1>5 DEF Ends
  <2> QED
    BY <1>2, <1>5, <2>1, NoneFine, Entries, JobStep
<1>6. CASE ReceiveKeep(w)
  <2>1. j.at = "receive.keep" /\ UNCHANGED <<record, removed>>
    BY <1>6 DEF ReceiveKeep, At
  <2>2. {"entry", "attempts"} \subseteq DOMAIN j /\ Receiving(j)
    BY <1>1, <2>1 DEF JobFine, Receives, Receiving
  <2>3. CASE Becomes(w, Rewrite([j EXCEPT !.attempts = @ + 1], j.entry, Gone, "receive.check", "receive.life"))
    <3> DEFINE old == [j EXCEPT !.attempts = @ + 1]
               r == Rewrite(old, j.entry, Gone, "receive.check", "receive.life")
    <3>1. DOMAIN old = DOMAIN j /\ old.entry = j.entry
      BY <2>2
    <3> HIDE DEF old
    <3>2. /\ "at" \in DOMAIN r /\ Named \subseteq DOMAIN r /\ DOMAIN old \subseteq DOMAIN r
          /\ r.at = "rewrite.life" /\ r.next = j.entry /\ r.then = "receive.check" /\ r.else = "receive.life"
          /\ \A f \in DOMAIN old \ (Named \cup {"at"}) : r[f] = old[f]
      BY <1>1, <3>1, RewriteIs
    <3>3. Becomes(w, r)
      BY <2>3 DEF old
    <3> HIDE DEF r
    <3>4. r.entry = j.entry /\ {"entry", "attempts"} \subseteq DOMAIN r
      BY <2>2, <3>1, <3>2 DEF Named
    <3>5. JobFine(r)
      BY <3>2, <3>4 DEF JobFine, Purpose, Renewals, Rewriting, Receives
    <3> QED
      BY <1>2, <2>1, <2>2, <3>3, <3>4, <3>5, JobOnly
  <2>4. CASE Becomes(w, None)
    BY <1>2, <2>1, <2>4, NoneFine, JobOnly
  <2> QED
    BY <1>6, <2>1, <2>3, <2>4, <1>3 DEF ReceiveKeep
<1>7. CASE ReceiveLife(w)
  <2>1. j.at = "receive.life" /\ UNCHANGED <<record, removed>>
    BY <1>7 DEF ReceiveLife, At
  <2> QED
    BY <1>2, <1>7, <2>1, <1>4, EndsFine DEF ReceiveLife, Receives
<1>8. CASE ReceiveSave(w)
  <2>1. j.at = "receive.save" /\ removed' = removed
    BY <1>8 DEF ReceiveSave, At
  <2>2. {"entry", "attempts"} \subseteq DOMAIN j /\ Receiving(j)
    BY <1>1, <2>1 DEF JobFine, Receives, Receiving
  <2>3. CASE record = Gone /\ record' = j.entry /\ Goes(w, "receive.check")
    <3> DEFINE r == [j EXCEPT !.at = "receive.check"]
    <3>1. "at" \in DOMAIN r /\ r.at = "receive.check"
      BY <1>1
    <3>2. Becomes(w, r)
      BY <2>3 DEF Goes
    <3> HIDE DEF r
    <3>3. JobFine(r) /\ ~Receiving(r)
      BY <3>1, AsideFine DEF Aside
    <3>4. Removing(j.entry)
      BY <2>1, <2>3, Entries DEF Removing
    <3> QED
      BY <1>2, <2>2, <2>3, <3>2, <3>3, <3>4, JobStep
  <2> QED
    BY <1>8, <2>1, <2>3, <1>4 DEF ReceiveSave, Receives
<1>9. CASE ReceiveCheck(w)
  BY <1>2, <1>9, EndsFine, GoesAside DEF ReceiveCheck, Aside
<1>10. CASE Forget(w) \/ DisconnectFind(w)
  <2>1. UNCHANGED <<record, removed>>
    BY <1>10 DEF Forget, DisconnectFind
  <2>2. CASE Becomes(w, None)
    BY <1>2, <2>1, <2>2, NoneFine, JobOnly
  <2> QED
    BY <1>10, <2>1, <2>2, <1>3 DEF Forget, DisconnectFind
<1>11. CASE ForgetLife(w)
  BY <1>2, <1>11, EndsFine, GoesAside DEF ForgetLife, Aside
<1>12. CASE ForgetRemove(w) \/ CloseRemove(w)
  BY <1>12, <1>5 DEF ForgetRemove, CloseRemove
<1>13. CASE Over(w)
  BY <1>2, <1>13, EndsFine DEF Over
<1> QED
  BY <1>6, <1>7, <1>8, <1>9, <1>10, <1>11, <1>12, <1>13 DEF KeepStep

(* What a request begins as.                                               *)
LEMMA BeginLInv ==
  ASSUME LInv, NEW w \in Worker,
         BeginCurrent(w) \/ BeginReceive(w) \/ BeginDisconnect(w) \/ BeginWithdraw(w) \/ BeginClose(w)
  PROVE  LInv'
<1>1. ASSUME NEW j, Becomes(w, j), "at" \in DOMAIN j, j.at \in Aside, UNCHANGED <<record, removed, logins>>
      PROVE  LInv'
  BY <1>1, AsideFine, JobOnly
<1>2. CASE BeginCurrent(w)
  <2> DEFINE j == [at |-> "current.find", read |-> Gone, next |-> Gone]
  <2>1. JobFine(j) /\ ~Receiving(j)
    BY DEF JobFine, Receiving, Renewals, Rewriting, Receives
  <2> QED
    BY <1>2, <2>1, JobOnly DEF BeginCurrent, Begins
<1>3. CASE BeginReceive(w)
  <2> DEFINE j == [at |-> "receive.keep", entry |-> Entry(logins', issued'), attempts |-> 0]
  <2>1. logins' = logins + 1 /\ logins \in Nat /\ UNCHANGED <<record, removed>> /\ Becomes(w, j)
    BY <1>3 DEF BeginReceive, Begins, LInv
  <2>2. JobFine(j)
    BY DEF JobFine, Renewals, Rewriting, Receives
  <2>3. Linked(j.entry) /\ j.entry.login = logins + 1
    BY <2>1, Entries
  <2>4. Removing(record)
    BY <2>1 DEF Removing
  <2> HIDE DEF j
  <2> QED
    BY <2>1, <2>2, <2>3, <2>4, JobStep
<1>4. CASE BeginDisconnect(w)
  BY <1>4, <1>1 DEF BeginDisconnect, Begins, Aside
<1>5. CASE BeginWithdraw(w)
  BY <1>5, <1>1 DEF BeginWithdraw, Begins, Aside
<1>6. CASE BeginClose(w)
  BY <1>6, <1>1 DEF BeginClose, Begins, Aside
<1> QED
  BY <1>2, <1>3, <1>4, <1>5, <1>6

----------------------------------------------------------------------------
LEMMA InitLInv == Init => LInv
<1> SUFFICES ASSUME Init PROVE LInv
  OBVIOUS
<1>1. \A w \in Worker : JobFine(job[w]) /\ ~Receiving(job[w])
  BY NoneFine DEF Init
<1> QED
  BY <1>1, Entries DEF Init, LInv, NeverBroughtBack, Unwritten

LEMMA StepLInv == LInv /\ [Next]_vars => LInv'
<1> SUFFICES ASSUME LInv, [Next]_vars PROVE LInv'
  OBVIOUS
<1>1. CASE UNCHANGED vars
  BY <1>1, StillLInv DEF vars
<1>2. ASSUME NEW w \in Worker, Crash(w) PROVE LInv'
  BY <1>2, EndsFine DEF Crash
<1>3. CASE Shortens \/ StepsUp \/ LockLapses
  BY <1>3, StillLInv DEF Shortens, StepsUp, LockLapses
<1> QED
  BY <1>1, <1>2, <1>3, RewriteLInv, CurrentLInv, KeepLInv, BeginLInv DEF Next, Work

(* A login's tokens, once taken out of the record, are never in it again,  *)
(* for any number of requests, logins, tokens and troubles: no renewal     *)
(* under way brings them back, whoever lost its lock meanwhile             *)
(* (renewing.ts "neither is brought back nor written over").               *)
THEOREM TakenOutForGood == Spec => []NeverBroughtBack
<1>1. LInv => NeverBroughtBack
  BY DEF LInv
<1> QED
  BY <1>1, InitLInv, StepLInv, PTL DEF Spec

----------------------------------------------------------------------------
(* What is at hand: the entries in the record, in receipts and in          *)
(* requests.  A token is of one entry, so a request that read the record's *)
(* token read the record's version.                                        *)
Fields == {"read", "next", "entry"}
Holds(j, e) == \E f \in Fields \cap DOMAIN j : j[f] = e
OnHand(e) == e = record \/ e \in receipts \/ \E w \in Worker : Holds(job[w], e)

Drawn(e) == e \in {Gone, Empty} \/ \E l \in 1 .. logins, t \in 1 .. issued : e = Entry(l, t)

HandInv ==
  /\ load \in Loads /\ logins \in 0 .. load.logins /\ issued \in 0 .. load.tokens
  /\ \A e : OnHand(e) => Drawn(e)
  /\ \A d, e : OnHand(d) /\ OnHand(e) /\ Linked(d) /\ Linked(e) /\ d.token = e.token => d = e
  /\ valid \subseteq 1 .. issued /\ rotated \subseteq (1 .. issued) \ valid

(* The entry a request has yet to write: of a token that nobody else has.  *)
Renews(j) == j.at = "renew.held" \/ (j.at \in Rewriting /\ j.then = "current.release")
Pends(j, e) == Linked(e) /\ ((Receiving(j) /\ j.entry = e) \/ (Renews(j) /\ j.next = e))

PendInv ==
  \A w \in Worker : \A e : Pends(job[w], e) =>
    /\ e.token \in (1 .. issued) \ rotated
    /\ Linked(record) => record.token # e.token
    /\ \A v \in Worker : "read" \in DOMAIN job[v] /\ Linked(job[v].read) => job[v].read.token # e.token
    /\ \A v \in Worker \ {w} : \A d : Pends(job[v], d) => d.token # e.token

(* A step of a request, which may make an entry of a token just issued, or *)
(* write the one it has pending.                                           *)
Makes(m) == m = Gone \/ (issued' = issued + 1 /\ \E l \in 1 .. logins' : m = Entry(l, issued'))

Turn(w, j, m) ==
  /\ Becomes(w, j) /\ Makes(m)
  /\ load' = load /\ issued' \in {issued, issued + 1} /\ logins' \in {logins, logins + 1}
  /\ \A e : Holds(j, e) => Holds(job[w], e) \/ e \in receipts \cup {record, Gone, Empty, m}
  /\ \/ record' \in {record, Gone, Empty}
     \/ Pends(job[w], record') /\ \A e : ~Pends(j, e)
  /\ \A e \in receipts' : e \in receipts \/ Holds(job[w], e)
  /\ \A e : Pends(j, e) => Pends(job[w], e) \/ (e = m /\ m # Gone)
  /\ "read" \in DOMAIN j /\ Linked(j.read) => j.read = record \/ ("read" \in DOMAIN job[w] /\ j.read = job[w].read)
  /\ \A t \in rotated' : t \in rotated \/ ("read" \in DOMAIN job[w] /\ Linked(job[w].read) /\ t = job[w].read.token /\ t \in valid)
  /\ \A t \in valid' : (t \in valid /\ t \notin rotated' \ rotated) \/ (issued' = issued + 1 /\ t = issued')

LEMMA EntryIs == \A l, t : Entry(l, t).token = t /\ Entry(l, t).login = l /\ Linked(Entry(l, t))
BY DEF Entry, Linked

LEMMA PendsHeld ==
  ASSUME NEW j, JobFine(j), NEW e, Pends(j, e)
  PROVE  Holds(j, e)
BY DEF Pends, Receiving, Renews, JobFine, Purpose, Holds, Fields, Renewals, Receives, Rewriting, Named

LEMMA LinkedDrawn ==
  ASSUME NEW e, Drawn(e), Linked(e)
  PROVE  e.token \in 1 .. issued /\ e.login \in 1 .. logins /\ e = Entry(e.login, e.token)
BY Entries, EntryIs DEF Drawn

LEMMA TurnHand ==
  ASSUME LInv, HandInv, NEW w \in Worker, NEW j, NEW m, Turn(w, j, m),
         logins' \in 0 .. load.logins, issued' \in 0 .. load.tokens, rotated' \cap valid' = {}
  PROVE  HandInv'
<1>1. job'[w] = j /\ DOMAIN job' = Worker /\ \A v \in Worker \ {w} : job'[v] = job[v]
  BY DEF Turn, Becomes, LInv
<1>2. JobFine(job[w])
  BY DEF LInv
<1>3. OnHand(record)
  BY DEF OnHand
<1>4. ASSUME NEW e, OnHand(e)' PROVE OnHand(e) \/ e \in {Gone, Empty, m}
  <2>1. OnHand(record') \/ record' \in {Gone, Empty}
    BY <1>2, <1>3, PendsHeld DEF Turn, OnHand
  <2>2. CASE e = record'
    BY <2>1, <2>2
  <2>3. CASE e \in receipts'
    BY <2>3 DEF Turn, OnHand
  <2>4. ASSUME NEW v \in Worker, Holds(job'[v], e) PROVE OnHand(e) \/ e \in {Gone, Empty, m}
    <3>1. CASE v = w
      BY <1>1, <2>4, <3>1 DEF Turn, OnHand
    <3>2. CASE v # w
      BY <1>1, <2>4, <3>2 DEF OnHand
    <3>3. QED
      BY <3>1, <3>2
  <2>5. QED
    BY <1>4, <2>2, <2>3, <2>4 DEF OnHand, Holds, Fields
<1>5. logins \in Nat /\ issued \in Nat /\ load' = load /\ issued' \in {issued, issued + 1} /\ logins' \in {logins, logins + 1}
  BY RenewalAssumption DEF HandInv, Turn
<1>6. 1 .. logins \subseteq 1 .. logins' /\ 1 .. issued \subseteq 1 .. issued'
  BY <1>5
<1>7. ASSUME NEW e, Drawn(e) PROVE Drawn(e)'
  BY <1>6, <1>7 DEF Drawn
<1>8. m # Gone => issued' = issued + 1 /\ issued' \in 1 .. issued' /\ m.token = issued' /\ issued' \notin 1 .. issued /\ Drawn(m)'
  BY <1>5, EntryIs DEF Turn, Makes, Drawn
<1>9. \A e : OnHand(e)' => Drawn(e)'
  <2>1. Drawn(Gone)' /\ Drawn(Empty)'
    BY DEF Drawn
  <2>2. QED
    BY <1>4, <1>7, <1>8, <2>1 DEF HandInv
<1>10. ASSUME NEW d, NEW e, OnHand(d)', OnHand(e)', Linked(d), Linked(e), d.token = e.token
       PROVE  d = e
  <2>1. (OnHand(d) \/ d = m) /\ (OnHand(e) \/ e = m) /\ (m = d \/ m = e => m # Gone)
    BY <1>4, <1>10, Entries
  <2>2. \A x : OnHand(x) /\ Linked(x) => x.token \in 1 .. issued
    BY LinkedDrawn DEF HandInv
  <2>3. QED
    BY <1>8, <1>10, <2>1, <2>2 DEF HandInv
<1>11. valid' \subseteq 1 .. issued' /\ rotated' \subseteq (1 .. issued') \ valid'
  <2>1. issued' = issued + 1 => issued' \in 1 .. issued'
    BY <1>5
  <2>2. \A t \in valid' : (t \in valid /\ t \notin rotated' \ rotated) \/ (issued' = issued + 1 /\ t = issued')
    BY DEF Turn
  <2>3. \A t \in rotated' : t \in rotated \/ t \in valid
    BY DEF Turn
  <2>4. valid \subseteq 1 .. issued' /\ rotated \subseteq 1 .. issued'
    BY <1>6 DEF HandInv
  <2>5. QED
    BY <2>1, <2>2, <2>3, <2>4
<1>12. load' \in Loads /\ logins' \in 0 .. load'.logins /\ issued' \in 0 .. load'.tokens
  BY <1>5 DEF HandInv
<1>13. QED
  BY <1>9, <1>10, <1>11, <1>12 DEF HandInv, Linked

LEMMA TurnPends ==
  ASSUME LInv, HandInv, PendInv, NEW w \in Worker, NEW j, NEW m, Turn(w, j, m)
  PROVE  PendInv'
<1>1. job'[w] = j /\ DOMAIN job' = Worker /\ \A v \in Worker \ {w} : job'[v] = job[v]
  BY DEF Turn, Becomes, LInv
<1>2. issued \in Nat /\ issued' \in {issued, issued + 1} /\ 1 .. issued \subseteq 1 .. issued'
  BY RenewalAssumption DEF HandInv, Turn
<1>3. m # Gone => issued' = issued + 1 /\ issued' \in 1 .. issued' /\ m.token = issued' /\ issued' \notin 1 .. issued
  BY <1>2, EntryIs DEF Turn, Makes
<1>4. ASSUME NEW v \in Worker
      PROVE  /\ \A e : Pends(job[v], e) => OnHand(e) /\ e.token \in 1 .. issued
             /\ "read" \in DOMAIN job[v] /\ Linked(job[v].read) => job[v].read.token \in 1 .. issued
  <2>1. JobFine(job[v])
    BY DEF LInv
  <2>2. "read" \in DOMAIN job[v] => OnHand(job[v].read)
    BY DEF OnHand, Holds, Fields
  <2>3. \A e : Pends(job[v], e) => OnHand(e)
    BY <2>1, PendsHeld DEF OnHand
  <2>4. \A e : OnHand(e) /\ Linked(e) => e.token \in 1 .. issued
    BY LinkedDrawn DEF HandInv
  <2>5. QED
    BY <2>2, <2>3, <2>4 DEF Pends
<1>5. Linked(record) => record.token \in 1 .. issued
  BY LinkedDrawn DEF HandInv, OnHand
(* Of one pending now: it was, of this request or another, or was made.    *)
<1>6. ASSUME NEW v \in Worker, NEW e, Pends(job'[v], e)
      PROVE  Pends(job[v], e) \/ (v = w /\ e = m /\ m # Gone)
  BY <1>1, <1>6 DEF Turn
<1>7. ASSUME NEW v \in Worker, NEW e, Pends(job'[v], e)
      PROVE  /\ e.token \in (1 .. issued') \ rotated'
             /\ Linked(record') => record'.token # e.token
             /\ \A u \in Worker : "read" \in DOMAIN job'[u] /\ Linked(job'[u].read) => job'[u].read.token # e.token
             /\ \A u \in Worker \ {v} : \A d : Pends(job'[u], d) => d.token # e.token
  <2>1. CASE Pends(job[v], e)
    <3>1. /\ e.token \in (1 .. issued) \ rotated
          /\ Linked(record) => record.token # e.token
          /\ \A u \in Worker : "read" \in DOMAIN job[u] /\ Linked(job[u].read) => job[u].read.token # e.token
          /\ \A u \in Worker \ {v} : \A d : Pends(job[u], d) => d.token # e.token
      BY <2>1 DEF PendInv
    <3>2. e.token \in (1 .. issued') \ rotated'
      BY <1>2, <3>1 DEF Turn
    <3>3. Linked(record') => record'.token # e.token
      <4>1. CASE Pends(job[w], record') /\ \A d : ~Pends(j, d)
        <5>1. v # w
          BY <1>1, <1>7, <4>1
        <5>2. QED
          BY <3>1, <4>1, <5>1
      <4>2. CASE record' \in {record, Gone, Empty}
        BY <3>1, <4>2, Entries
      <4>3. QED
        BY <4>1, <4>2 DEF Turn
    <3>4. ASSUME NEW u \in Worker, "read" \in DOMAIN job'[u], Linked(job'[u].read) PROVE job'[u].read.token # e.token
      BY <1>1, <3>1, <3>4 DEF Turn
    <3>5. ASSUME NEW u \in Worker \ {v}, NEW d, Pends(job'[u], d) PROVE d.token # e.token
      BY <1>3, <1>6, <3>1, <3>5
    <3>6. QED
      BY <3>2, <3>3, <3>4, <3>5
  <2>2. CASE v = w /\ e = m /\ m # Gone
    <3>1. rotated \subseteq 1 .. issued /\ valid \subseteq 1 .. issued
      BY DEF HandInv
    <3>2. e.token \in (1 .. issued') \ rotated'
      BY <1>3, <2>2, <3>1 DEF Turn
    <3>3. Linked(record') => record'.token # e.token
      BY <1>1, <1>3, <1>5, <1>7, <2>2, Entries DEF Turn
    <3>4. ASSUME NEW u \in Worker, "read" \in DOMAIN job'[u], Linked(job'[u].read) PROVE job'[u].read.token # e.token
      BY <1>1, <1>3, <1>4, <1>5, <2>2, <3>4 DEF Turn
    <3>5. ASSUME NEW u \in Worker \ {v}, NEW d, Pends(job'[u], d) PROVE d.token # e.token
      BY <1>3, <1>4, <1>6, <2>2, <3>5
    <3>6. QED
      BY <3>2, <3>3, <3>4, <3>5
  <2>3. QED
    BY <1>6, <1>7, <2>1, <2>2
<1>8. QED
  BY <1>7 DEF PendInv, Pends, Receiving, Renews, Linked

----------------------------------------------------------------------------
(* Each step of a request is a turn.                                       *)
Untouched == UNCHANGED <<load, record, receipts, logins, issued, valid, rotated>>

LEMMA QuietTurn ==
  ASSUME NEW w, NEW j, Becomes(w, j), Untouched,
         \A e : Holds(j, e) => Holds(job[w], e) \/ e \in receipts \cup {record, Gone, Empty},
         \A e : Pends(j, e) => Pends(job[w], e),
         "read" \in DOMAIN j /\ Linked(j.read) => j.read = record \/ ("read" \in DOMAIN job[w] /\ j.read = job[w].read)
  PROVE  \E m : Turn(w, j, m)
<1>1. Turn(w, j, Gone)
  BY DEF Untouched, Turn, Makes
<1>2. QED
  BY <1>1

LEMMA AsidePends ==
  ASSUME NEW j, j.at \in Aside
  PROVE  \A e : ~Pends(j, e)
BY DEF Aside, Pends, Receiving, Receives, Renews, Rewriting

LEMMA MovedTurn ==
  ASSUME LInv, NEW w \in Worker, NEW at, Goes(w, at), Untouched,
         at \in Aside \cup {"current.hold", "current.again"}
         \/ (at \in Receives /\ job[w].at \in Receives) \/ (at = "rewrite.update" /\ job[w].at = "rewrite.life")
  PROVE  \E j, m : Turn(w, j, m)
<1>1. PICK t, j : t = job[w] /\ j = [t EXCEPT !.at = at]
  OBVIOUS
<1>2. "at" \in DOMAIN t
  BY <1>1 DEF LInv, JobFine
<1>3. j.at = at /\ DOMAIN j = DOMAIN t /\ \A f \in DOMAIN t \ {"at"} : j[f] = t[f]
  BY <1>1, <1>2
<1>4. Becomes(w, j)
  BY <1>1 DEF Goes
<1>5. JobFine(t)
  BY <1>1 DEF LInv
<1>6. \A e : Holds(j, e) => Holds(t, e)
  BY <1>3 DEF Holds, Fields
<1>7. \A e : Pends(j, e) => Pends(t, e)
  <2>1. CASE at \in Aside
    BY <1>3, <2>1, AsidePends
  <2>2. CASE at \in {"current.hold", "current.again"}
    BY <1>3, <2>2 DEF Pends, Receiving, Receives, Renews, Rewriting
  <2>3. CASE at \in Receives /\ t.at \in Receives
    <3>1. j.entry = t.entry
      BY <1>3, <1>5, <2>3 DEF JobFine
    <3>2. QED
      BY <1>3, <2>3, <3>1 DEF Pends, Receiving, Receives, Renews, Rewriting
  <2>4. CASE at = "rewrite.update" /\ t.at = "rewrite.life"
    <3>1. j.next = t.next /\ j.then = t.then /\ (t.then = "receive.check" => j.entry = t.entry)
      BY <1>3, <1>5, <2>4 DEF JobFine, Purpose, Rewriting, Named
    <3>2. QED
      BY <1>3, <2>4, <3>1 DEF Pends, Receiving, Receives, Renews, Rewriting
  <2>5. QED
    BY <1>1, <2>1, <2>2, <2>3, <2>4
<1>8. "read" \in DOMAIN j => "read" \in DOMAIN t /\ j.read = t.read
  BY <1>3
<1>9. QED
  BY <1>1, <1>4, <1>6, <1>7, <1>8, QuietTurn

LEMMA EndsTurn ==
  ASSUME NEW w, Becomes(w, None), Untouched
  PROVE  \E j, m : Turn(w, j, m)
<1>1. DOMAIN None = {"at"} /\ None.at \in Aside
  BY DEF None, Aside
<1>2. (\A e : ~Holds(None, e)) /\ (\A e : ~Pends(None, e)) /\ "read" \notin DOMAIN None
  BY <1>1, AsidePends DEF Holds, Fields
<1>3. QED
  BY <1>2, QuietTurn

LEMMA RewriteHolds ==
  ASSUME NEW j, NEW next, NEW over, NEW then, NEW else, "at" \in DOMAIN j, NEW r, r = Rewrite(j, next, over, then, else)
  PROVE  /\ \A e : Holds(r, e) => Holds(j, e) \/ e = next
         /\ "read" \in DOMAIN r => "read" \in DOMAIN j /\ r.read = j.read
         /\ "entry" \in DOMAIN j => r.entry = j.entry
         /\ r.at = "rewrite.life" /\ r.next = next /\ r.then = then /\ r.over = over /\ r.else = else
BY DEF Rewrite, Holds, Fields

LEMMA CallingHolds ==
  ASSUME NEW j, "at" \in DOMAIN j, NEW at, NEW r, r = Calling(j, at)
  PROVE  /\ \A e : Holds(r, e) => Holds(j, e)
         /\ "read" \in DOMAIN r => "read" \in DOMAIN j /\ r.read = j.read
         /\ r.at = at
BY DEF Calling, Holds, Fields

LEMMA CallingPends ==
  ASSUME NEW j, JobFine(j), j.at \in Rewriting, NEW at, at \in {j.then, j.else}, NEW r, r = Calling(j, at)
  PROVE  /\ \A e : Pends(r, e) => Pends(j, e)
         /\ at = j.then => \A e : ~Pends(r, e)
<1>1. "at" \in DOMAIN j /\ Purpose(j)
  BY DEF JobFine
<1>2. r.at = at
  BY <1>1, CallingHolds
<1>3. at \in {"end", "current.release", "forget.life", "receive.check", "receive.life"}
      /\ (at = "receive.life" => at # j.then)
  BY <1>1 DEF Purpose
<1>4. ~Renews(r) /\ (at = j.then => ~Receiving(r))
  BY <1>2, <1>3 DEF Renews, Rewriting, Receiving, Receives
<1>5. Receiving(r) => Receiving(j) /\ r.entry = j.entry
  BY CallingFine
<1>6. QED
  BY <1>4, <1>5 DEF Pends

LEMMA RewriteTurn ==
  ASSUME LInv, HandInv, NEW w \in Worker, RewriteStep(w), load' = load
  PROVE  \E j, m : Turn(w, j, m)
<1>1. PICK t : t = job[w]
  OBVIOUS
<1>2. JobFine(t) /\ "at" \in DOMAIN t
  BY <1>1 DEF LInv, JobFine
<1>3. CASE RewriteLife(w)
  <2>1. Untouched /\ t.at = "rewrite.life"
    BY <1>1, <1>3 DEF RewriteLife, Untouched, upstreamVars, At
  <2>2. CASE Goes(w, "rewrite.update")
    BY <1>1, <2>1, <2>2, MovedTurn
  <2>3. CASE Becomes(w, Calling(t, t.else))
    <3>1. PICK j : j = Calling(t, t.else)
      OBVIOUS
    <3>2. QED
      BY <1>1, <1>2, <2>1, <2>3, <3>1, CallingHolds, CallingPends, QuietTurn DEF Rewriting
  <2>4. QED
    BY <1>1, <1>3, <2>2, <2>3 DEF RewriteLife
<1>4. CASE RewriteUpdate(w)
  <2>1. PICK after : after = Written(t, record)
    OBVIOUS
  <2>2. PICK at, j : /\ at = (IF after = t.next THEN t.then ELSE t.else)
                     /\ j = Calling(t, at)
    OBVIOUS
  <2>3. /\ t.at = "rewrite.update" /\ record' = after /\ Becomes(w, j)
        /\ UNCHANGED <<receipts, logins, issued, valid, rotated>>
    BY <1>1, <1>4, <2>1, <2>2 DEF RewriteUpdate, At, upstreamVars
  <2>4. /\ \A e : Holds(j, e) => Holds(t, e)
        /\ "read" \in DOMAIN j => "read" \in DOMAIN t /\ j.read = t.read
        /\ \A e : Pends(j, e) => Pends(t, e)
        /\ at = t.then => \A e : ~Pends(j, e)
    BY <1>2, <2>2, <2>3, CallingHolds, CallingPends DEF Rewriting
  <2>5. after \in {record, Gone, Empty} \/ (Pends(t, after) /\ \A e : ~Pends(j, e))
    <3>1. after = record \/ after = t.next
      BY <2>1 DEF Written
    <3>2. CASE after = t.next /\ after # record
      <4>1. at = t.then /\ Purpose(t)
        BY <1>2, <2>2, <2>3, <3>2 DEF JobFine, Rewriting
      <4>2. t.over = Gone \/ t.over = record
        BY <2>1, <3>2 DEF Written
      <4>3. after \in {Gone, Empty} \/ (Linked(after) /\ ((Receiving(t) /\ t.entry = after) \/ Renews(t)))
        <5>1. CASE Linked(t.over) /\ Renewed(t.over, t.next) /\ t.then = "current.release"
          BY <2>3, <3>2, <5>1, EntryIs DEF Renewed, Renews, Rewriting
        <5>2. CASE t.next = t.entry /\ t.then = "receive.check"
          <6>1. Receiving(t)
            BY <2>3, <5>2 DEF Receiving, Rewriting
          <6>2. Linked(t.entry)
            BY <1>1, <6>1 DEF LInv, Unwritten
          <6>3. QED
            BY <3>2, <5>2, <6>1, <6>2
        <5>3. QED
          BY <3>2, <4>1, <5>1, <5>2 DEF Purpose
      <4>4. QED
        BY <2>4, <3>2, <4>1, <4>3 DEF Pends
    <3>3. QED
      BY <3>1, <3>2
  <2>6. Turn(w, j, Gone)
    BY <1>1, <2>3, <2>4, <2>5 DEF Turn, Makes
  <2>7. QED
    BY <2>6
<1>5. QED
  BY <1>3, <1>4 DEF RewriteStep

(* A renewal's answer, to be written.                                      *)
AnsweredAs(t, next) == [t EXCEPT !.at = "renew.held", !.next = next]

LEMMA AnsweredIs ==
  ASSUME LInv, NEW w \in Worker, At(w, "renew.ask"), NEW t, t = job[w], NEW next,
         NEW j, j = AnsweredAs(t, next)
  PROVE  /\ "read" \in DOMAIN t /\ "read" \in DOMAIN j /\ j.read = t.read /\ Linked(t.read)
         /\ \A e : Holds(j, e) => Holds(t, e) \/ e = next
         /\ \A e : Pends(j, e) => e = next /\ Linked(e)
<1>1. JobFine(t) /\ t.at = "renew.ask"
  BY DEF LInv, At
<1>2. {"at", "read", "next"} \subseteq DOMAIN t /\ Linked(t.read)
  BY <1>1 DEF JobFine, Renewals
<1>3. DOMAIN j = DOMAIN t /\ j.at = "renew.held" /\ j.next = next /\ \A f \in DOMAIN t \ {"at", "next"} : j[f] = t[f]
  BY <1>2 DEF AnsweredAs
<1>4. \A e : Holds(j, e) => Holds(t, e) \/ e = next
  BY <1>2, <1>3 DEF Holds, Fields
<1>5. \A e : Pends(j, e) => e = next /\ Linked(e)
  BY <1>3 DEF Pends, Receiving, Receives, Rewriting
<1>6. QED
  BY <1>2, <1>3, <1>4, <1>5

LEMMA AskTurn ==
  ASSUME LInv, HandInv, NEW w \in Worker, RenewAsk(w), load' = load
  PROVE  \E j, m : Turn(w, j, m)
<1>1. PICK t : t = job[w]
  OBVIOUS
<1>2. JobFine(t) /\ At(w, "renew.ask") /\ UNCHANGED <<record, receipts, logins>>
  BY <1>1 DEF LInv, RenewAsk
<1>3. "read" \in DOMAIN t /\ Linked(t.read) /\ OnHand(t.read)
  BY <1>1, <1>2 DEF JobFine, At, OnHand, Holds, Fields, Renewals
<1>4. t.read.token \in 1 .. issued /\ t.read.login \in 1 .. logins
  BY <1>3, LinkedDrawn DEF HandInv
<1>5. CASE Goes(w, "current.release") /\ Untouched
  BY <1>5, MovedTurn DEF Aside
<1>6. CASE t.read.token \in valid /\ issued' = issued + 1 /\ valid' = (valid \ {t.read.token}) \cup {issued'}
           /\ rotated' = rotated \cup {t.read.token} /\ Answered(w, Entry(t.read.login, issued'))
  <2>1. PICK n, m, j : n = issued' /\ m = Entry(t.read.login, n) /\ j = AnsweredAs(t, m)
    OBVIOUS
  <2>2. Becomes(w, j)
    BY <1>1, <1>6, <2>1 DEF Answered, AnsweredAs
  <2>3. /\ "read" \in DOMAIN j /\ j.read = t.read
        /\ \A e : Holds(j, e) => Holds(t, e) \/ e = m
        /\ \A e : Pends(j, e) => e = m
    BY <1>1, <1>2, <2>1, AnsweredIs
  <2>4. m # Gone /\ Makes(m)
    BY <1>2, <1>4, <1>6, <2>1, EntryIs, Entries DEF Makes
  <2>5. \A u \in rotated' : u \in rotated \/ (u = t.read.token /\ u \in valid)
    BY <1>6
  <2>6. \A u \in valid' : (u \in valid /\ u \notin rotated' \ rotated) \/ (issued' = issued + 1 /\ u = issued')
    BY <1>6
  <2>7. Turn(w, j, m)
    BY <1>1, <1>2, <1>3, <1>6, <2>2, <2>3, <2>4, <2>5, <2>6 DEF Turn
  <2>8. QED
    BY <2>7
<1>7. CASE t.read.token \in valid /\ issued' = issued + 1 /\ valid' = (valid \ {t.read.token}) \cup {issued'}
           /\ rotated' = rotated \cup {t.read.token} /\ Goes(w, "current.release")
  <2>1. PICK j : j = [t EXCEPT !.at = "current.release"]
    OBVIOUS
  <2>2. Becomes(w, j)
    BY <1>1, <1>7, <2>1 DEF Goes
  <2>3. "at" \in DOMAIN t
    BY <1>2 DEF JobFine
  <2>4. j.at = "current.release" /\ DOMAIN j = DOMAIN t /\ \A f \in DOMAIN t \ {"at"} : j[f] = t[f]
    BY <2>1, <2>3
  <2>5. \A e : Holds(j, e) => Holds(t, e)
    BY <2>4 DEF Holds, Fields
  <2>6. (\A e : ~Pends(j, e)) /\ j.read = t.read
    BY <1>3, <2>4, AsidePends DEF Aside
  <2>7. \A u \in rotated' : u \in rotated \/ (u = t.read.token /\ u \in valid)
    BY <1>7
  <2>8. \A u \in valid' : (u \in valid /\ u \notin rotated' \ rotated) \/ (issued' = issued + 1 /\ u = issued')
    BY <1>7
  <2>9. Turn(w, j, Gone)
    BY <1>1, <1>2, <1>3, <1>7, <2>2, <2>5, <2>6, <2>7, <2>8 DEF Turn, Makes
  <2>10. QED
    BY <2>9
<1>8. CASE Answered(w, Empty) /\ UNCHANGED <<issued, rotated>> /\ valid' \subseteq valid
  <2>1. PICK j : j = AnsweredAs(t, Empty)
    OBVIOUS
  <2>2. Becomes(w, j)
    BY <1>1, <1>8, <2>1 DEF Answered, AnsweredAs
  <2>3. /\ "read" \in DOMAIN j /\ j.read = t.read
        /\ \A e : Holds(j, e) => Holds(t, e) \/ e = Empty
        /\ \A e : Pends(j, e) => e = Empty /\ Linked(e)
    BY <1>1, <1>2, <2>1, AnsweredIs
  <2>4. \A e : ~Pends(j, e)
    BY <2>3, Entries
  <2>5. Turn(w, j, Gone)
    BY <1>1, <1>2, <1>3, <1>8, <2>2, <2>3, <2>4 DEF Turn, Makes
  <2>6. QED
    BY <2>5
<1>9. CASE t.read.token \in valid /\ UNCHANGED upstreamVars /\ (Answered(w, Empty) \/ Goes(w, "current.release"))
  BY <1>2, <1>5, <1>8, <1>9 DEF upstreamVars, Untouched
<1>10. CASE t.read.token \notin valid /\ valid' = {} /\ Answered(w, Empty) /\ UNCHANGED <<issued, rotated>>
  BY <1>8, <1>10
<1>11. QED
  BY <1>1, <1>6, <1>7, <1>9, <1>10 DEF RenewAsk

LEMMA CurrentTurn ==
  ASSUME LInv, HandInv, NEW w \in Worker, CurrentStep(w), load' = load
  PROVE  \E j, m : Turn(w, j, m)
<1>1. PICK t : t = job[w]
  OBVIOUS
<1>2. JobFine(t) /\ "at" \in DOMAIN t
  BY <1>1 DEF LInv, JobFine
<1>3. ~RenewAsk(w) => Untouched
  BY DEF CurrentStep, CurrentFind, CurrentHold, CurrentAgain, RenewHeld, CurrentRelease, Untouched, upstreamVars
(* It reads the record.                                                    *)
<1>4. ASSUME NEW at \in {"current.hold", "renew.ask"}, t.at \in {"current.find", "current.again"}, Untouched,
             Becomes(w, [t EXCEPT !.at = at, !.read = record])
      PROVE  \E j, m : Turn(w, j, m)
  <2>1. PICK j : j = [t EXCEPT !.at = at, !.read = record]
    OBVIOUS
  <2>2. "read" \in DOMAIN t
    BY <1>2, <1>4 DEF JobFine, Renewals
  <2>3. DOMAIN j = DOMAIN t /\ j.at = at /\ j.read = record /\ \A f \in DOMAIN t \ {"at", "read"} : j[f] = t[f]
    BY <1>2, <2>1, <2>2
  <2>4. \A e : Holds(j, e) => Holds(t, e) \/ e = record
    BY <2>3 DEF Holds, Fields
  <2>5. \A e : ~Pends(j, e)
    BY <1>4, <2>3 DEF Pends, Receiving, Receives, Renews, Rewriting
  <2>6. QED
    BY <1>1, <1>4, <2>1, <2>3, <2>4, <2>5, QuietTurn
<1>5. CASE Ends(w) /\ Untouched
  BY <1>5, EndsTurn DEF Ends
<1>6. CASE CurrentFind(w)
  BY <1>1, <1>3, <1>4, <1>5, <1>6 DEF CurrentFind, At, RenewAsk
<1>7. CASE CurrentHold(w)
  <2>1. Untouched
    BY <1>3, <1>7 DEF CurrentHold, RenewAsk, At
  <2>2. CASE Goes(w, "current.again")
    BY <2>1, <2>2, MovedTurn
  <2>3. QED
    BY <1>5, <1>7, <2>1, <2>2 DEF CurrentHold
<1>8. CASE CurrentAgain(w)
  <2>1. Untouched
    BY <1>3, <1>8 DEF CurrentAgain, RenewAsk, At
  <2>2. CASE Goes(w, "current.release")
    BY <2>1, <2>2, MovedTurn DEF Aside
  <2>3. QED
    BY <1>1, <1>4, <1>8, <2>1, <2>2 DEF CurrentAgain, At
<1>9. CASE RenewHeld(w)
  <2>1. Untouched /\ t.at = "renew.held"
    BY <1>1, <1>3, <1>9 DEF RenewHeld, RenewAsk, At
  <2>2. CASE Goes(w, "current.release")
    BY <2>1, <2>2, MovedTurn DEF Aside
  <2>3. CASE Becomes(w, Rewrite([at |-> "none", read |-> t.read], t.next, t.read, "current.release", "current.release"))
    <3>1. PICK old, j : /\ old = [at |-> "none", read |-> t.read]
                        /\ j = Rewrite(old, t.next, t.read, "current.release", "current.release")
      OBVIOUS
    <3>2. {"read", "next"} \subseteq DOMAIN t
      BY <1>2, <2>1 DEF JobFine, Renewals
    <3>3. DOMAIN old = {"at", "read"} /\ old.read = t.read
      BY <3>1
    <3>4. /\ \A e : Holds(j, e) => Holds(old, e) \/ e = t.next
          /\ "read" \in DOMAIN j => j.read = old.read
          /\ j.at = "rewrite.life" /\ j.next = t.next /\ j.then = "current.release"
      BY <3>1, <3>3, RewriteHolds
    <3>5. \A e : Holds(j, e) => Holds(t, e)
      BY <3>2, <3>3, <3>4 DEF Holds, Fields
    <3>6. \A e : Pends(j, e) => Pends(t, e)
      BY <2>1, <3>4 DEF Pends, Receiving, Receives, Renews, Rewriting
    <3>7. QED
      BY <1>1, <2>1, <2>3, <3>1, <3>2, <3>3, <3>4, <3>5, <3>6, QuietTurn
  <2>4. QED
    BY <1>1, <1>9, <2>2, <2>3 DEF RenewHeld
<1>10. CASE CurrentRelease(w)
  BY <1>3, <1>5, <1>10 DEF CurrentRelease, RenewAsk, At
<1>11. QED
  BY <1>6, <1>7, <1>8, <1>9, <1>10, AskTurn DEF CurrentStep

----------------------------------------------------------------------------
(* A request that may take an entry out has one to name.                   *)
Leaves == {"receive.check", "forget", "forget.life", "forget.remove"}

Entered(j) ==
  /\ j.at \in Leaves => "entry" \in DOMAIN j
  /\ j.at \in Rewriting /\ j.else = "forget.life" => "entry" \in DOMAIN j /\ j.next = Empty

EnteredInv == \A w \in Worker : Entered(job[w])

LEMMA EnteredNone == Entered(None)
BY DEF Entered, None, Leaves, Rewriting

LEMMA EnteredBy ==
  ASSUME LInv, EnteredInv, NEW w \in Worker, NEW j, Becomes(w, j), Entered(j)
  PROVE  EnteredInv'
<1>1. job'[w] = j /\ \A v \in Worker \ {w} : job'[v] = job[v]
  BY DEF Becomes, LInv
<1>2. QED
  BY <1>1 DEF EnteredInv, Entered

LEMMA EnteredGoes ==
  ASSUME LInv, EnteredInv, NEW w \in Worker, NEW at, Goes(w, at),
         at \in Leaves => job[w].at \in Leaves \cup Receives,
         at \in Rewriting => job[w].at \in Rewriting
  PROVE  EnteredInv'
<1>1. PICK t, j : t = job[w] /\ j = [t EXCEPT !.at = at]
  OBVIOUS
<1>2. JobFine(t) /\ Entered(t) /\ "at" \in DOMAIN t
  BY <1>1 DEF LInv, EnteredInv, JobFine
<1>3. j.at = at /\ DOMAIN j = DOMAIN t /\ \A f \in DOMAIN t \ {"at"} : j[f] = t[f]
  BY <1>1, <1>2
<1>4. at \in Leaves => "entry" \in DOMAIN j
  BY <1>1, <1>2, <1>3 DEF Entered, JobFine
<1>5. at \in Rewriting => {"next", "else"} \subseteq DOMAIN t
  BY <1>1, <1>2 DEF JobFine, Named
<1>6. at \in Rewriting => (j.else = "forget.life" => "entry" \in DOMAIN j /\ j.next = Empty)
  BY <1>1, <1>2, <1>3, <1>5 DEF Entered, Rewriting
<1>7. Becomes(w, j)
  BY <1>1 DEF Goes
<1>8. QED
  BY <1>3, <1>4, <1>6, <1>7, EnteredBy DEF Entered

LEMMA EnteredCalling ==
  ASSUME LInv, EnteredInv, NEW w \in Worker, NEW t, t = job[w], t.at \in Rewriting, NEW at, at \in {t.then, t.else},
         Becomes(w, Calling(t, at))
  PROVE  EnteredInv'
<1>1. JobFine(t) /\ Entered(t)
  BY DEF LInv, EnteredInv
<1>2. "at" \in DOMAIN t /\ Purpose(t)
  BY <1>1 DEF JobFine
<1>3. PICK j : j = Calling(t, at)
  OBVIOUS
<1>4. /\ "at" \in DOMAIN j /\ j.at = at
      /\ \A f \in DOMAIN t \ (Named \cup {"at"}) : f \in DOMAIN j /\ j[f] = t[f]
  BY <1>2, <1>3, CallingIs
<1>5. at \notin Rewriting
  BY <1>2 DEF Purpose, Rewriting
<1>6. at \in Leaves => "entry" \in DOMAIN t
  BY <1>1, <1>2 DEF Purpose, Entered, Leaves
<1>7. Entered(j)
  BY <1>4, <1>5, <1>6 DEF Entered, Named
<1>8. QED
  BY <1>3, <1>7, EnteredBy

LEMMA EnteredStep ==
  ASSUME LInv, EnteredInv, NEW w \in Worker, Work(w)
  PROVE  EnteredInv'
<1>1. PICK t : t = job[w]
  OBVIOUS
<1>2. JobFine(t) /\ Entered(t) /\ "at" \in DOMAIN t
  BY <1>1 DEF LInv, EnteredInv, JobFine
<1>3. ASSUME NEW j, Becomes(w, j), j.at \notin Leaves \cup Rewriting PROVE EnteredInv'
  BY <1>3, EnteredBy DEF Entered
<1>4. CASE Ends(w)
  BY <1>4, EnteredNone, EnteredBy DEF Ends
<1>5. ASSUME NEW old, NEW next, NEW over, NEW then, NEW else, "at" \in DOMAIN old,
             Becomes(w, Rewrite(old, next, over, then, else)),
             else = "forget.life" => "entry" \in DOMAIN old /\ next = Empty
      PROVE  EnteredInv'
  <2>1. PICK j : j = Rewrite(old, next, over, then, else)
    OBVIOUS
  <2>2. DOMAIN old \subseteq DOMAIN j /\ j.at = "rewrite.life" /\ j.next = next /\ j.else = else
    BY <1>5, <2>1, RewriteIs
  <2>3. Entered(j)
    BY <1>5, <2>2 DEF Entered, Leaves
  <2>4. QED
    BY <1>5, <2>1, <2>3, EnteredBy
<1>6. CASE RewriteStep(w)
  <2>1. CASE RewriteLife(w)
    <3>1. t.at = "rewrite.life"
      BY <1>1, <2>1 DEF RewriteLife, At
    <3>2. CASE Goes(w, "rewrite.update")
      BY <1>1, <3>1, <3>2, EnteredGoes DEF Rewriting, Leaves
    <3>3. CASE Becomes(w, Calling(t, t.else))
      BY <1>1, <3>1, <3>3, EnteredCalling DEF Rewriting
    <3>4. QED
      BY <1>1, <2>1, <3>2, <3>3 DEF RewriteLife
  <2>2. CASE RewriteUpdate(w)
    <3>1. PICK at : at = (IF Written(t, record) = t.next THEN t.then ELSE t.else)
      OBVIOUS
    <3>2. t.at = "rewrite.update" /\ Becomes(w, Calling(t, at)) /\ at \in {t.then, t.else}
      BY <1>1, <2>2, <3>1 DEF RewriteUpdate, At
    <3>3. QED
      BY <1>1, <3>2, EnteredCalling DEF Rewriting
  <2>3. QED
    BY <1>6, <2>1, <2>2 DEF RewriteStep
<1>7. CASE CurrentStep(w)
  <2>1. ASSUME NEW at \in Renewals, Goes(w, at) PROVE EnteredInv'
    BY <2>1, EnteredGoes DEF Renewals, Leaves, Rewriting
  <2>2. ASSUME NEW at \in Renewals, Becomes(w, [t EXCEPT !.at = at, !.read = record]) PROVE EnteredInv'
    <3>1. PICK j : j = [t EXCEPT !.at = at, !.read = record]
      OBVIOUS
    <3>2. j.at = at
      BY <1>2, <3>1
    <3>3. QED
      BY <1>3, <2>2, <3>1, <3>2 DEF Renewals, Leaves, Rewriting
  <2>3. ASSUME NEW next, Answered(w, next) PROVE EnteredInv'
    <3>1. PICK j : j = AnsweredAs(t, next)
      OBVIOUS
    <3>2. j.at = "renew.held"
      BY <1>2, <3>1 DEF AnsweredAs
    <3>3. Becomes(w, j)
      BY <1>1, <2>3, <3>1 DEF Answered, AnsweredAs
    <3>4. QED
      BY <1>3, <3>2, <3>3 DEF Leaves, Rewriting
  <2>4. CASE CurrentFind(w)
    BY <1>1, <1>4, <2>2, <2>4 DEF CurrentFind, Renewals
  <2>5. CASE CurrentHold(w)
    BY <1>4, <2>1, <2>5 DEF CurrentHold, Renewals
  <2>6. CASE CurrentAgain(w)
    BY <1>1, <2>1, <2>2, <2>6 DEF CurrentAgain, Renewals
  <2>7. CASE RenewAsk(w)
    BY <2>1, <2>3, <2>7 DEF RenewAsk, Renewals
  <2>8. CASE RenewHeld(w)
    <3>1. CASE Goes(w, "current.release")
      BY <2>1, <3>1 DEF Renewals
    <3>2. CASE Becomes(w, Rewrite([at |-> "none", read |-> t.read], t.next, t.read, "current.release", "current.release"))
      <4>1. PICK old : old = [at |-> "none", read |-> t.read]
        OBVIOUS
      <4>2. "at" \in DOMAIN old /\ Becomes(w, Rewrite(old, t.next, t.read, "current.release", "current.release"))
        BY <3>2, <4>1
      <4>3. QED
        BY <1>5, <4>2
    <3>3. QED
      BY <1>1, <2>8, <3>1, <3>2 DEF RenewHeld
  <2>9. CASE CurrentRelease(w)
    BY <1>4, <2>9 DEF CurrentRelease
  <2>10. QED
    BY <1>7, <2>4, <2>5, <2>6, <2>7, <2>8, <2>9 DEF CurrentStep
<1>8. CASE KeepStep(w)
  <2>1. CASE ReceiveKeep(w)
    <3>1. CASE Becomes(w, Rewrite([t EXCEPT !.attempts = @ + 1], t.entry, Gone, "receive.check", "receive.life"))
      <4>1. PICK old : old = [t EXCEPT !.attempts = @ + 1]
        OBVIOUS
      <4>2. "at" \in DOMAIN old /\ Becomes(w, Rewrite(old, t.entry, Gone, "receive.check", "receive.life"))
        BY <1>2, <3>1, <4>1
      <4>3. QED
        BY <1>5, <4>2
    <3>2. CASE Becomes(w, Rewrite(t, Empty, Gone, "end", "end"))
      BY <1>2, <1>5, <3>2
    <3>3. QED
      BY <1>1, <1>4, <2>1, <3>1, <3>2 DEF ReceiveKeep, Ends
  <2>2. CASE ReceiveLife(w)
    BY <1>4, <2>2, EnteredGoes DEF ReceiveLife, Leaves, Rewriting
  <2>3. CASE ReceiveSave(w)
    BY <2>3, EnteredGoes DEF ReceiveSave, At, Leaves, Receives, Rewriting
  <2>4. CASE ReceiveCheck(w)
    BY <1>4, <2>4, EnteredGoes DEF ReceiveCheck, At, Leaves, Rewriting
  <2>5. CASE Forget(w)
    <3>1. t.at = "forget" /\ Becomes(w, Rewrite(t, Empty, t.entry, "end", "forget.life"))
      BY <1>1, <2>5 DEF Forget, At
    <3>2. "entry" \in DOMAIN t
      BY <1>2, <3>1 DEF Entered, Leaves
    <3>3. QED
      BY <1>2, <1>5, <3>1, <3>2
  <2>6. CASE ForgetLife(w)
    BY <1>4, <2>6, EnteredGoes DEF ForgetLife, At, Leaves, Rewriting
  <2>7. CASE DisconnectFind(w)
    <3>1. CASE Becomes(w, Rewrite(t, Empty, Gone, "end", "end"))
      BY <1>2, <1>5, <3>1
    <3>2. QED
      BY <1>1, <1>4, <2>7, <3>1 DEF DisconnectFind, Ends
  <2>8. CASE ForgetRemove(w) \/ CloseRemove(w) \/ Over(w)
    BY <1>4, <2>8 DEF ForgetRemove, CloseRemove, Over
  <2>9. QED
    BY <1>8, <2>1, <2>2, <2>3, <2>4, <2>5, <2>6, <2>7, <2>8 DEF KeepStep
<1>9. QED
  BY <1>6, <1>7, <1>8 DEF Work

----------------------------------------------------------------------------
LEMMA KeepTurn ==
  ASSUME LInv, HandInv, EnteredInv, NEW w \in Worker, KeepStep(w), load' = load
  PROVE  \E j, m : Turn(w, j, m)
<1>1. PICK t : t = job[w]
  OBVIOUS
<1>2. JobFine(t) /\ Entered(t) /\ "at" \in DOMAIN t
  BY <1>1 DEF LInv, EnteredInv, JobFine
<1>3. UNCHANGED <<logins, issued, valid, rotated>>
  BY DEF KeepStep, ReceiveKeep, ReceiveLife, ReceiveSave, ReceiveCheck, Forget, ForgetLife, ForgetRemove,
         DisconnectFind, CloseRemove, Over, upstreamVars
<1>4. ASSUME record' \in {record, Gone}, Ends(w), \A e \in receipts' : e \in receipts \/ Holds(t, e)
      PROVE  \E j, m : Turn(w, j, m)
  <2>1. (\A e : ~Holds(None, e)) /\ (\A e : ~Pends(None, e)) /\ "read" \notin DOMAIN None /\ Becomes(w, None)
    BY <1>4, AsidePends DEF Holds, Fields, None, Aside, Ends
  <2>2. Turn(w, None, Gone)
    BY <1>1, <1>3, <1>4, <2>1 DEF Turn, Makes
  <2>3. QED
    BY <2>2
<1>5. ASSUME Untouched, NEW over, NEW then, NEW else, then # "receive.check", Becomes(w, Rewrite(t, Empty, over, then, else))
      PROVE  \E j, m : Turn(w, j, m)
  <2>1. PICK j : j = Rewrite(t, Empty, over, then, else)
    OBVIOUS
  <2>2. /\ \A e : Holds(j, e) => Holds(t, e) \/ e = Empty
        /\ "read" \in DOMAIN j => "read" \in DOMAIN t /\ j.read = t.read
        /\ j.at = "rewrite.life" /\ j.next = Empty /\ j.then = then
    BY <1>2, <2>1, RewriteHolds
  <2>3. \A e : ~Pends(j, e)
    BY <1>5, <2>2, Entries DEF Pends, Receiving, Receives, Renews, Rewriting
  <2>4. QED
    BY <1>1, <1>5, <2>1, <2>2, <2>3, QuietTurn
<1>6. ASSUME Untouched, Ends(w) PROVE \E j, m : Turn(w, j, m)
  BY <1>6, EndsTurn DEF Ends
<1>7. ASSUME Untouched, NEW at, Goes(w, at), at \in Aside \/ (at \in Receives /\ t.at \in Receives)
      PROVE  \E j, m : Turn(w, j, m)
  BY <1>1, <1>7, MovedTurn
<1>8. CASE ReceiveKeep(w)
  <2>1. Untouched /\ t.at = "receive.keep"
    BY <1>1, <1>8 DEF ReceiveKeep, Untouched, upstreamVars, At
  <2>2. {"entry", "attempts"} \subseteq DOMAIN t
    BY <1>2, <2>1 DEF JobFine, Receives
  <2>3. CASE Becomes(w, Rewrite([t EXCEPT !.attempts = @ + 1], t.entry, Gone, "receive.check", "receive.life"))
    <3>1. PICK old, j : /\ old = [t EXCEPT !.attempts = @ + 1]
                        /\ j = Rewrite(old, t.entry, Gone, "receive.check", "receive.life")
      OBVIOUS
    <3>2. DOMAIN old = DOMAIN t /\ \A f \in DOMAIN t \ {"attempts"} : old[f] = t[f]
      BY <2>2, <3>1
    <3>3. /\ \A e : Holds(j, e) => Holds(old, e) \/ e = t.entry
          /\ "read" \in DOMAIN j => "read" \in DOMAIN old /\ j.read = old.read
          /\ j.entry = old.entry
          /\ j.at = "rewrite.life" /\ j.then = "receive.check"
      BY <1>2, <2>2, <3>1, <3>2, RewriteHolds
    <3>4. \A e : Holds(j, e) => Holds(t, e)
      BY <2>2, <3>2, <3>3 DEF Holds, Fields
    <3>5. \A e : Pends(j, e) => Pends(t, e)
      BY <2>1, <2>2, <3>2, <3>3 DEF Pends, Receiving, Receives, Renews, Rewriting
    <3>6. "read" \in DOMAIN j => "read" \in DOMAIN t /\ j.read = t.read
      BY <3>2, <3>3
    <3>7. QED
      BY <1>1, <2>1, <2>3, <3>1, <3>4, <3>5, <3>6, QuietTurn
  <2>4. QED
    BY <1>1, <1>5, <1>6, <1>8, <2>1, <2>3 DEF ReceiveKeep, Ends
<1>9. CASE ReceiveLife(w)
  BY <1>1, <1>6, <1>7, <1>9 DEF ReceiveLife, At, Untouched, upstreamVars, Receives
<1>10. CASE ReceiveSave(w)
  <2>1. t.at = "receive.save" /\ receipts' = receipts
    BY <1>1, <1>10 DEF ReceiveSave, At
  <2>2. CASE record' = record /\ Goes(w, "receive.keep")
    BY <1>3, <1>7, <2>1, <2>2 DEF Untouched, Receives
  <2>3. CASE record = Gone /\ record' = t.entry /\ Goes(w, "receive.check")
    <3>1. PICK j : j = [t EXCEPT !.at = "receive.check"]
      OBVIOUS
    <3>2. j.at = "receive.check" /\ DOMAIN j = DOMAIN t /\ \A f \in DOMAIN t \ {"at"} : j[f] = t[f]
      BY <1>2, <3>1
    <3>3. (\A e : Holds(j, e) => Holds(t, e)) /\ ("read" \in DOMAIN j => "read" \in DOMAIN t /\ j.read = t.read)
      BY <3>2 DEF Holds, Fields
    <3>4. \A e : ~Pends(j, e)
      BY <3>2, AsidePends DEF Aside
    <3>5. Receiving(t) /\ Linked(t.entry)
      BY <1>1, <2>1 DEF LInv, Unwritten, Receiving, Receives
    <3>6. Pends(t, record')
      BY <2>3, <3>5 DEF Pends
    <3>7. Becomes(w, j)
      BY <1>1, <2>3, <3>1 DEF Goes
    <3>8. Turn(w, j, Gone)
      BY <1>1, <1>3, <2>1, <3>3, <3>4, <3>6, <3>7 DEF Turn, Makes
    <3>9. QED
      BY <3>8
  <2>4. QED
    BY <1>1, <1>10, <2>2, <2>3 DEF ReceiveSave
<1>11. CASE ReceiveCheck(w)
  <2>1. t.at = "receive.check" /\ record' = record
    BY <1>1, <1>11 DEF ReceiveCheck, At
  <2>2. CASE Ends(w) /\ receipts' = receipts \cup {t.entry}
    <3>1. Holds(t, t.entry)
      BY <1>2, <2>1 DEF Entered, Leaves, Holds, Fields
    <3>2. QED
      BY <1>4, <2>1, <2>2, <3>1
  <2>3. CASE Goes(w, "forget") /\ receipts' = receipts
    BY <1>3, <1>7, <2>1, <2>3 DEF Untouched, Aside
  <2>4. QED
    BY <1>1, <1>11, <2>2, <2>3 DEF ReceiveCheck
<1>12. CASE Forget(w)
  BY <1>1, <1>5, <1>12 DEF Forget, Untouched, upstreamVars
<1>13. CASE ForgetLife(w)
  BY <1>6, <1>7, <1>13 DEF ForgetLife, Untouched, upstreamVars, Aside
<1>14. CASE ForgetRemove(w) \/ CloseRemove(w)
  BY <1>4, <1>14 DEF ForgetRemove, CloseRemove
<1>15. CASE DisconnectFind(w)
  <2>1. Untouched
    BY <1>15 DEF DisconnectFind, Untouched, upstreamVars
  <2>2. QED
    BY <1>1, <1>5, <1>6, <1>15, <2>1 DEF DisconnectFind, Ends
<1>16. CASE Over(w)
  BY <1>6, <1>16 DEF Over, Untouched, upstreamVars
<1>17. QED
  BY <1>8, <1>9, <1>10, <1>11, <1>12, <1>13, <1>14, <1>15, <1>16 DEF KeepStep

Begin(w) == BeginCurrent(w) \/ BeginReceive(w) \/ BeginDisconnect(w) \/ BeginWithdraw(w) \/ BeginClose(w)

LEMMA BeginTurn ==
  ASSUME LInv, HandInv, EnteredInv, NEW w \in Worker, Begin(w), load' = load
  PROVE  EnteredInv' /\ \E j, m : Turn(w, j, m)
<1>1. ASSUME Untouched, NEW j, Becomes(w, j), Entered(j), \A e : Holds(j, e) => e \in receipts \cup {Gone},
             j.at \in Aside \cup {"current.find"}, "read" \in DOMAIN j => ~Linked(j.read)
      PROVE  EnteredInv' /\ \E i, m : Turn(w, i, m)
  <2>1. \A e : ~Pends(j, e)
    BY <1>1 DEF Aside, Pends, Receiving, Receives, Renews, Rewriting
  <2>2. QED
    BY <1>1, <2>1, QuietTurn, EnteredBy
<1>2. CASE BeginCurrent(w)
  <2>1. PICK j : j = [at |-> "current.find", read |-> Gone, next |-> Gone]
    OBVIOUS
  <2>2. Untouched /\ Becomes(w, j)
    BY <1>2, <2>1 DEF BeginCurrent, Begins, Untouched, upstreamVars
  <2>3. Entered(j) /\ (\A e : Holds(j, e) => e = Gone) /\ j.at = "current.find" /\ j.read = Gone
    BY <2>1 DEF Entered, Leaves, Rewriting, Holds, Fields
  <2>4. QED
    BY <1>1, <2>2, <2>3, Entries
<1>3. CASE BeginReceive(w)
  <2>1. PICK l, n, m, j : /\ l = logins' /\ n = issued' /\ m = Entry(l, n)
                          /\ j = [at |-> "receive.keep", entry |-> m, attempts |-> 0]
    OBVIOUS
  <2>2. /\ l = logins + 1 /\ n = issued + 1 /\ valid' = valid \cup {n} /\ Becomes(w, j)
        /\ UNCHANGED <<record, receipts, rotated>>
    BY <1>3, <2>1 DEF BeginReceive, Begins
  <2>3. /\ \A e : Holds(j, e) => e = m
        /\ \A e : Pends(j, e) => e = m
        /\ "read" \notin DOMAIN j /\ Entered(j)
    BY <2>1 DEF Holds, Fields, Pends, Renews, Rewriting, Entered, Leaves
  <2>4. l \in 1 .. l
    BY <2>2, RenewalAssumption DEF HandInv
  <2>5. m # Gone /\ Makes(m)
    BY <2>1, <2>2, <2>4, EntryIs, Entries DEF Makes
  <2>6. Turn(w, j, m)
    BY <2>1, <2>2, <2>3, <2>5 DEF Turn
  <2>7. QED
    BY <2>2, <2>3, <2>6, EnteredBy
<1>4. CASE BeginDisconnect(w)
  <2>1. PICK j : j = [at |-> "disconnect.find"]
    OBVIOUS
  <2>2. Untouched /\ Becomes(w, j)
    BY <1>4, <2>1 DEF BeginDisconnect, Begins, Untouched, upstreamVars
  <2>3. Entered(j) /\ (\A e : ~Holds(j, e)) /\ j.at \in Aside /\ "read" \notin DOMAIN j
    BY <2>1 DEF Entered, Leaves, Rewriting, Holds, Fields, Aside
  <2>4. QED
    BY <1>1, <2>2, <2>3
<1>5. CASE BeginWithdraw(w)
  <2>1. PICK x \in receipts : Begins(w, "withdraw", [at |-> "forget", entry |-> x])
    BY <1>5 DEF BeginWithdraw
  <2>2. PICK j : j = [at |-> "forget", entry |-> x]
    OBVIOUS
  <2>3. Untouched /\ Becomes(w, j)
    BY <1>5, <2>1, <2>2 DEF BeginWithdraw, Begins, Untouched, upstreamVars
  <2>4. Entered(j) /\ (\A e : Holds(j, e) => e = x) /\ j.at \in Aside /\ "read" \notin DOMAIN j
    BY <2>2 DEF Entered, Leaves, Rewriting, Holds, Fields, Aside
  <2>5. QED
    BY <1>1, <2>3, <2>4
<1>6. CASE BeginClose(w)
  <2>1. PICK j : j = [at |-> "close.remove"]
    OBVIOUS
  <2>2. Untouched /\ Becomes(w, j)
    BY <1>6, <2>1 DEF BeginClose, Begins, Untouched, upstreamVars
  <2>3. Entered(j) /\ (\A e : ~Holds(j, e)) /\ j.at \in Aside /\ "read" \notin DOMAIN j
    BY <2>1 DEF Entered, Leaves, Rewriting, Holds, Fields, Aside
  <2>4. QED
    BY <1>1, <2>2, <2>3
<1>7. QED
  BY <1>2, <1>3, <1>4, <1>5, <1>6 DEF Begin

----------------------------------------------------------------------------
HInv == LInv /\ HandInv /\ PendInv /\ EnteredInv

(* Logins and tokens stay within the load; no token is valid and rotated.  *)
LEMMA Bounded ==
  ASSUME LInv, HandInv, NEW w \in Worker, Work(w) \/ Crash(w) \/ Begin(w), load' = load
  PROVE  logins' \in 0 .. load.logins /\ issued' \in 0 .. load.tokens /\ rotated' \cap valid' = {}
<1>1. /\ logins \in 0 .. load.logins /\ issued \in 0 .. load.tokens
      /\ load.logins \in Nat /\ load.tokens \in Nat
      /\ valid \subseteq 1 .. issued /\ rotated \subseteq (1 .. issued) \ valid
  BY RenewalAssumption DEF HandInv
<1>2. issued + 1 \notin 1 .. issued
  BY <1>1
<1>3. CASE UNCHANGED <<logins, issued, valid, rotated>>
  BY <1>1, <1>3
<1>4. CASE RenewAsk(w)
  <2>1. PICK t : t = job[w].read.token
    OBVIOUS
  <2>2. CASE issued < load.tokens /\ issued' = issued + 1 /\ valid' = (valid \ {t}) \cup {issued'}
             /\ rotated' = rotated \cup {t} /\ t \in valid /\ logins' = logins
    BY <1>1, <1>2, <2>2
  <2>3. CASE UNCHANGED upstreamVars /\ logins' = logins
    BY <1>3, <2>3 DEF upstreamVars
  <2>4. CASE valid' = {} /\ UNCHANGED <<issued, rotated, logins>>
    BY <1>1, <2>4
  <2>5. QED
    BY <1>4, <2>1, <2>2, <2>3, <2>4 DEF RenewAsk
<1>5. CASE BeginReceive(w)
  BY <1>1, <1>2, <1>5 DEF BeginReceive
<1>6. CASE RewriteStep(w)
  BY <1>3, <1>6 DEF RewriteStep, RewriteLife, RewriteUpdate, upstreamVars
<1>7. CASE CurrentStep(w) /\ ~RenewAsk(w)
  BY <1>3, <1>7 DEF CurrentStep, CurrentFind, CurrentHold, CurrentAgain, RenewHeld, CurrentRelease, upstreamVars
<1>8. CASE KeepStep(w)
  BY <1>3, <1>8 DEF KeepStep, ReceiveKeep, ReceiveLife, ReceiveSave, ReceiveCheck, Forget, ForgetLife, ForgetRemove,
                    DisconnectFind, CloseRemove, Over, upstreamVars
<1>9. CASE Crash(w)
  BY <1>3, <1>9 DEF Crash, upstreamVars
<1>10. CASE BeginCurrent(w) \/ BeginDisconnect(w) \/ BeginWithdraw(w) \/ BeginClose(w)
  BY <1>3, <1>10 DEF BeginCurrent, BeginDisconnect, BeginWithdraw, BeginClose, upstreamVars
<1>11. QED
  BY <1>4, <1>5, <1>6, <1>7, <1>8, <1>9, <1>10 DEF Work, Begin

LEMMA InitHInv == Init => HInv
<1> SUFFICES ASSUME Init PROVE HInv
  OBVIOUS
<1>9. load \in Loads /\ logins = 0 /\ issued = 0 /\ load.logins \in Nat /\ load.tokens \in Nat
  BY RenewalAssumption DEF Init
<1>1. LInv
  BY InitLInv
<1>2. ASSUME NEW e, OnHand(e) PROVE e = Gone
  BY <1>2 DEF OnHand, Holds, Fields, Init, None
<1>3. HandInv
  <2>1. load \in Loads /\ logins \in 0 .. load.logins /\ issued \in 0 .. load.tokens
    BY <1>9
  <2>2. \A e : OnHand(e) => Drawn(e)
    BY <1>2 DEF Drawn
  <2>3. valid \subseteq 1 .. issued /\ rotated \subseteq (1 .. issued) \ valid
    BY DEF Init
  <2>4. QED
    BY <1>2, <2>1, <2>2, <2>3, Entries DEF HandInv
<1>4. \A w \in Worker : job[w] = None
  BY DEF Init
<1>5. None.at \in Aside
  BY DEF None, Aside
<1>6. PendInv
  BY <1>4, <1>5, AsidePends DEF PendInv
<1>7. EnteredInv
  BY <1>4, EnteredNone DEF EnteredInv
<1>8. QED
  BY <1>1, <1>3, <1>6, <1>7 DEF HInv

LEMMA StillHInv ==
  ASSUME HInv, Untouched, UNCHANGED <<removed, job>>
  PROVE  HInv'
<1>1. LInv'
  BY StillLInv DEF Untouched, HInv
<1>2. HandInv'
  BY DEF HInv, HandInv, Untouched, OnHand, Holds, Drawn, Linked
<1>3. PendInv'
  BY DEF HInv, PendInv, Untouched, Pends, Receiving, Renews, Linked
<1>4. EnteredInv'
  BY DEF HInv, EnteredInv, Entered
<1>5. QED
  BY <1>1, <1>2, <1>3, <1>4 DEF HInv

LEMMA StepHInv == HInv /\ [Next]_vars => HInv'
<1> SUFFICES ASSUME HInv, [Next]_vars PROVE HInv'
  OBVIOUS
<1>1. LInv /\ HandInv /\ PendInv /\ EnteredInv
  BY DEF HInv
<1>2. load' = load
  BY DEF Next, vars
<1>3. LInv'
  BY <1>1, StepLInv
<1>4. ASSUME NEW w \in Worker, Work(w) \/ Crash(w) \/ Begin(w) PROVE HInv'
  <2>1. EnteredInv' /\ \E j, m : Turn(w, j, m)
    <3>1. CASE RewriteStep(w)
      BY <1>1, <1>2, <3>1, RewriteTurn, EnteredStep DEF Work
    <3>2. CASE CurrentStep(w)
      BY <1>1, <1>2, <3>2, CurrentTurn, EnteredStep DEF Work
    <3>3. CASE KeepStep(w)
      BY <1>1, <1>2, <3>3, KeepTurn, EnteredStep DEF Work
    <3>4. CASE Begin(w)
      BY <1>1, <1>2, <3>4, BeginTurn
    <3>5. CASE Crash(w)
      <4>1. Untouched /\ Becomes(w, None)
        BY <1>2, <3>5 DEF Crash, Untouched, upstreamVars, Ends
      <4>2. QED
        BY <1>1, <4>1, EndsTurn, EnteredNone, EnteredBy
    <3>6. QED
      BY <1>4, <3>1, <3>2, <3>3, <3>4, <3>5 DEF Work
  <2>2. PICK j, m : Turn(w, j, m)
    BY <2>1
  <2>3. logins' \in 0 .. load.logins /\ issued' \in 0 .. load.tokens /\ rotated' \cap valid' = {}
    BY <1>1, <1>2, <1>4, Bounded
  <2>4. HandInv'
    BY <1>1, <2>2, <2>3, TurnHand
  <2>5. PendInv'
    BY <1>1, <2>2, TurnPends
  <2>6. QED
    BY <1>3, <2>1, <2>4, <2>5 DEF HInv
<1>5. CASE UNCHANGED vars
  BY <1>5, StillHInv DEF vars, upstreamVars, Untouched
<1>6. CASE Shortens \/ StepsUp \/ LockLapses
  BY <1>2, <1>6, StillHInv DEF Shortens, StepsUp, LockLapses, upstreamVars, Untouched
<1>7. QED
  BY <1>4, <1>5, <1>6 DEF Next, Begin

(* Every version is of a login received and a token issued, whatever the   *)
(* load; and a token is of one version alone, so who read a token from the *)
(* record read the record's version (renewal.ts "over the version read").  *)
LEMMA HandAlways == Spec => []HInv
BY InitHInv, StepHInv, PTL DEF Spec

----------------------------------------------------------------------------
(* The rest of the variables.                                              *)
RestOK ==
  /\ lock \in Worker \cup {"none"}
  /\ entering \in BOOLEAN /\ spell \in {"not yet", "now", "past"} /\ closed \in BOOLEAN
  /\ resent \in Nat /\ troubles \in 0 .. load.troubles

LEMMA InitRestOK == Init => RestOK
<1> SUFFICES ASSUME Init PROVE RestOK
  OBVIOUS
<1>1. load.troubles \in Nat /\ troubles = 0 /\ resent = 0
  BY RenewalAssumption DEF Init
<1>2. lock = "none" /\ spell = "not yet"
  BY DEF Init
<1>3. entering \in BOOLEAN /\ closed \in BOOLEAN
  BY DEF Init
<1>4. troubles \in 0 .. load.troubles /\ resent \in Nat
  BY <1>1
<1>5. QED
  BY <1>2, <1>3, <1>4 DEF RestOK

LEMMA StepRestOK == HInv /\ RestOK /\ [Next]_vars => RestOK'
<1> SUFFICES ASSUME HInv, RestOK, [Next]_vars PROVE RestOK'
  OBVIOUS
<1>1. load' = load /\ load.troubles \in Nat
  BY RenewalAssumption DEF Next, vars, HInv, HandInv
<1>2. troubles' = troubles \/ (troubles < load.troubles /\ troubles' = troubles + 1) => troubles' \in 0 .. load'.troubles
  <2>1. troubles \in 0 .. load.troubles
    BY DEF RestOK
  <2>2. QED
    BY <1>1, <2>1
<1>3. CASE UNCHANGED vars
  BY <1>1, <1>3 DEF vars, sessionVars, upstreamVars, RestOK
<1>4. ASSUME NEW w \in Worker, RewriteStep(w) PROVE RestOK'
  BY <1>1, <1>2, <1>4 DEF RewriteStep, RewriteLife, RewriteUpdate, sessionVars, upstreamVars, RestOK
<1>5. ASSUME NEW w \in Worker, CurrentStep(w) PROVE RestOK'
  <2>1. CASE RenewAsk(w)
    <3>1. UNCHANGED <<lock, sessionVars>> /\ (resent' = resent \/ resent' = resent + 1)
      BY <2>1 DEF RenewAsk, upstreamVars
    <3>2. troubles' = troubles \/ (troubles < load.troubles /\ troubles' = troubles + 1)
      BY <2>1 DEF RenewAsk, Trouble
    <3>3. resent \in Nat
      BY DEF RestOK
    <3>4. resent' \in Nat
      BY <3>1, <3>3
    <3>5. QED
      BY <1>2, <3>1, <3>2, <3>4 DEF RestOK, sessionVars
  <2>2. CASE CurrentHold(w) \/ CurrentRelease(w)
    BY <1>1, <1>2, <2>2 DEF CurrentHold, CurrentRelease, sessionVars, upstreamVars, RestOK
  <2>3. CASE CurrentFind(w) \/ CurrentAgain(w) \/ RenewHeld(w)
    BY <1>1, <1>2, <2>3 DEF CurrentFind, CurrentAgain, RenewHeld, sessionVars, upstreamVars, RestOK
  <2>4. QED
    BY <1>5, <2>1, <2>2, <2>3 DEF CurrentStep
<1>6. ASSUME NEW w \in Worker, KeepStep(w) PROVE RestOK'
  <2>1. UNCHANGED <<lock, entering, spell, resent, troubles>> /\ (closed' = closed \/ closed' = TRUE)
    BY <1>6 DEF KeepStep, ReceiveKeep, ReceiveLife, ReceiveSave, ReceiveCheck, Forget, ForgetLife, ForgetRemove,
                DisconnectFind, CloseRemove, Over, upstreamVars, sessionVars
  <2>2. QED
    BY <1>1, <2>1 DEF RestOK
<1>7. ASSUME NEW w \in Worker, Crash(w) PROVE RestOK'
  BY <1>1, <1>2, <1>7 DEF Crash, Trouble, sessionVars, upstreamVars, RestOK
<1>8. ASSUME NEW w \in Worker, Begin(w) PROVE RestOK'
  BY <1>1, <1>2, <1>8 DEF Begin, BeginCurrent, BeginReceive, BeginDisconnect, BeginWithdraw, BeginClose,
                          sessionVars, upstreamVars, RestOK
<1>9. CASE Shortens \/ StepsUp \/ LockLapses
  BY <1>1, <1>2, <1>9 DEF Shortens, StepsUp, LockLapses, Trouble, sessionVars, upstreamVars, RestOK
<1>10. QED
  BY <1>3, <1>4, <1>5, <1>6, <1>7, <1>8, <1>9 DEF Next, Work, Begin

LEMMA HandTyped == HInv /\ RestOK => TypeOK
<1> SUFFICES ASSUME HInv, RestOK PROVE TypeOK
  OBVIOUS
<1>1. /\ load \in Loads /\ logins \in 0 .. load.logins /\ issued \in 0 .. load.tokens
      /\ valid \subseteq 1 .. issued /\ rotated \subseteq 1 .. issued
      /\ load.logins \in Nat /\ load.tokens \in Nat
  BY RenewalAssumption DEF HInv, HandInv
<1>2. 1 .. logins \subseteq 1 .. load.logins /\ 1 .. issued \subseteq 1 .. load.tokens
  BY <1>1
<1>3. ASSUME NEW e, OnHand(e) PROVE e \in Records
  <2>1. e \in {Gone, Empty} \/ \E l \in 1 .. load.logins, t \in 1 .. load.tokens : e = Entry(l, t)
    BY <1>2, <1>3 DEF HInv, HandInv, Drawn
  <2>2. QED
    BY <2>1 DEF Records
<1>4. record \in Records /\ receipts \subseteq Records
  BY <1>3 DEF OnHand
<1>5. removed \subseteq 1 .. logins /\ \A w \in Worker : At(w, "renew.ask") => Linked(job[w].read)
  BY DEF HInv, LInv, JobFine, At
<1>6. QED
  BY <1>1, <1>4, <1>5 DEF RestOK, TypeOK

(* The variables keep their types, for any requests and loads: no version  *)
(* but of a login received and a token issued is ever kept or answered,    *)
(* and a refresh is asked for with an entry's token alone.                 *)
THEOREM RenewalTypeCorrect == Spec => []TypeOK
<1>1. Init => HInv /\ RestOK
  BY InitHInv, InitRestOK
<1>2. HInv /\ RestOK /\ [Next]_vars => (HInv /\ RestOK)'
  BY StepHInv, StepRestOK
<1>3. HInv /\ RestOK => TypeOK
  BY HandTyped
<1>4. QED
  BY <1>1, <1>2, <1>3, PTL DEF Spec

----------------------------------------------------------------------------
(* What a login's receive has left to do once the session closed.          *)
Strong(j) == j.at \in Leaves \/ (j.at = "rewrite.life" /\ j.else = "forget.life")

CloseInv ==
  /\ closed => ~entering
  /\ \A w \in Worker : At(w, "close.remove") => ~entering
  /\ load.crashes \cap TakesOut = {} /\ closed /\ record # Gone => \E w \in Worker : Strong(job[w])

LEMMA StrongGoes ==
  ASSUME LInv, NEW w \in Worker, NEW at \in Leaves, Goes(w, at)
  PROVE  Strong(job'[w])
<1>1. PICK t, j : t = job[w] /\ j = [t EXCEPT !.at = at]
  OBVIOUS
<1>2. "at" \in DOMAIN t /\ job'[w] = j
  BY <1>1 DEF LInv, JobFine, Goes, Becomes
<1>3. j.at = at
  BY <1>1, <1>2
<1>4. QED
  BY <1>2, <1>3 DEF Strong

(* In a session that lets nobody in, who is to take an entry out goes on.  *)
LEMMA StrongStays ==
  ASSUME LInv, NEW w \in Worker, ~Lives, Work(w), Strong(job[w]), record' # Gone
  PROVE  Strong(job'[w])
<1>1. PICK t : t = job[w]
  OBVIOUS
<1>2. "at" \in DOMAIN t
  BY <1>1 DEF LInv, JobFine
<1>3. CASE t.at = "rewrite.life" /\ t.else = "forget.life"
  <2>1. RewriteLife(w)
    BY <1>1, <1>3 DEF Work, RewriteStep, RewriteUpdate, CurrentStep, CurrentFind, CurrentHold, CurrentAgain, RenewAsk,
           RenewHeld, CurrentRelease, KeepStep, ReceiveKeep, ReceiveLife, ReceiveSave, ReceiveCheck, Forget, ForgetLife,
           ForgetRemove, DisconnectFind, CloseRemove, Over, At
  <2>2. PICK j : j = Calling(t, "forget.life")
    OBVIOUS
  <2>3. job'[w] = j
    BY <1>1, <1>3, <2>1, <2>2 DEF RewriteLife, Becomes, LInv
  <2>4. j.at = "forget.life"
    BY <1>2, <2>2, CallingIs
  <2>5. QED
    BY <2>3, <2>4 DEF Strong, Leaves
<1>4. CASE t.at \in Leaves
  <2>1. ReceiveCheck(w) \/ Forget(w) \/ ForgetLife(w) \/ ForgetRemove(w)
    BY <1>1, <1>4 DEF Work, RewriteStep, RewriteLife, RewriteUpdate, CurrentStep, CurrentFind, CurrentHold, CurrentAgain,
           RenewAsk, RenewHeld, CurrentRelease, KeepStep, ReceiveKeep, ReceiveLife, ReceiveSave, DisconnectFind, CloseRemove,
           Over, At, Leaves
  <2>2. CASE ReceiveCheck(w)
    BY <2>2, StrongGoes DEF ReceiveCheck, Leaves
  <2>3. CASE Forget(w)
    <3>1. PICK j : j = Rewrite(t, Empty, t.entry, "end", "forget.life")
      OBVIOUS
    <3>2. job'[w] = j
      BY <1>1, <2>3, <3>1 DEF Forget, Becomes, LInv
    <3>3. j.at = "rewrite.life" /\ j.else = "forget.life"
      BY <1>2, <3>1, RewriteIs
    <3>4. QED
      BY <3>2, <3>3 DEF Strong
  <2>4. CASE ForgetLife(w)
    BY <2>4, StrongGoes DEF ForgetLife, Leaves
  <2>5. CASE ForgetRemove(w)
    BY <2>5 DEF ForgetRemove
  <2>6. QED
    BY <2>1, <2>2, <2>3, <2>4, <2>5
<1>5. QED
  BY <1>1, <1>3, <1>4 DEF Strong

(* A record that was gone is there again by a login's receive alone.       *)
LEMMA SavedStrong ==
  ASSUME LInv, NEW w \in Worker, record = Gone, record' # Gone, Work(w) \/ Crash(w) \/ Begin(w)
  PROVE  Strong(job'[w])
<1>1. ReceiveSave(w)
  BY DEF Work, RewriteStep, RewriteLife, RewriteUpdate, Written, CurrentStep, CurrentFind, CurrentHold, CurrentAgain,
         RenewAsk, RenewHeld, CurrentRelease, KeepStep, ReceiveKeep, ReceiveLife, ReceiveCheck, Forget, ForgetLife,
         ForgetRemove, DisconnectFind, CloseRemove, Over, Crash, Begin, BeginCurrent, BeginReceive, BeginDisconnect,
         BeginWithdraw, BeginClose
<1>2. Goes(w, "receive.check")
  BY <1>1 DEF ReceiveSave
<1>3. QED
  BY <1>2, StrongGoes DEF Leaves

LEMMA OneJob ==
  ASSUME LInv, NEW w \in Worker, Work(w) \/ Crash(w) \/ Begin(w)
  PROVE  \A v \in Worker \ {w} : job'[v] = job[v]
<1>1. ASSUME NEW j, Becomes(w, j) PROVE \A v \in Worker \ {w} : job'[v] = job[v]
  BY <1>1 DEF Becomes, LInv
<1>2. CASE RewriteStep(w)
  BY <1>1, <1>2 DEF RewriteStep, RewriteLife, RewriteUpdate, Goes
<1>3. CASE CurrentStep(w)
  BY <1>1, <1>3 DEF CurrentStep, CurrentFind, CurrentHold, CurrentAgain, RenewAsk, RenewHeld, CurrentRelease, Goes, Ends, Answered
<1>4. CASE KeepStep(w)
  BY <1>1, <1>4 DEF KeepStep, ReceiveKeep, ReceiveLife, ReceiveSave, ReceiveCheck, Forget, ForgetLife, ForgetRemove,
                    DisconnectFind, CloseRemove, Over, Goes, Ends
<1>5. CASE Crash(w)
  BY <1>1, <1>5 DEF Crash, Ends
<1>6. CASE Begin(w)
  BY <1>1, <1>6 DEF Begin, BeginCurrent, BeginReceive, BeginDisconnect, BeginWithdraw, BeginClose, Begins
<1>7. QED
  BY <1>2, <1>3, <1>4, <1>5, <1>6 DEF Work

(* The closing, and a session's end, are for good.                         *)
LEMMA ClosingSteps ==
  ASSUME NEW w \in Worker, Work(w) \/ Crash(w) \/ Begin(w)
  PROVE  /\ entering' = entering \/ entering' = FALSE
         /\ closed' = closed \/ (At(w, "close.remove") /\ record' = Gone)
BY DEF Work, RewriteStep, RewriteLife, RewriteUpdate, CurrentStep, CurrentFind, CurrentHold, CurrentAgain,
       RenewAsk, RenewHeld, CurrentRelease, KeepStep, ReceiveKeep, ReceiveLife, ReceiveSave, ReceiveCheck, Forget, ForgetLife,
       ForgetRemove, DisconnectFind, CloseRemove, Over, Crash, Begin, BeginCurrent, BeginReceive, BeginDisconnect,
       BeginWithdraw, BeginClose, sessionVars

(* A closing is at its one step once begun, the session closed to entry.   *)
LEMMA CloseBegins ==
  ASSUME LInv, NEW w \in Worker, Work(w) \/ Crash(w) \/ Begin(w), job'[w].at = "close.remove"
  PROVE  entering' = FALSE
<1>1. PICK t : t = job[w]
  OBVIOUS
<1>2. JobFine(t) /\ "at" \in DOMAIN t
  BY <1>1 DEF LInv, JobFine
<1>3. ASSUME NEW j, Becomes(w, j), j.at # "close.remove" PROVE FALSE
  <2>1. job'[w] = j
    BY <1>3 DEF Becomes, LInv
  <2>2. QED
    BY <1>3, <2>1
<1>4. ASSUME NEW at, Goes(w, at), at # "close.remove" PROVE FALSE
  <2>1. PICK j : j = [t EXCEPT !.at = at]
    OBVIOUS
  <2>2. j.at = at /\ Becomes(w, j)
    BY <1>1, <1>2, <1>4, <2>1 DEF Goes
  <2>3. QED
    BY <1>3, <1>4, <2>2
<1>5. ~Ends(w)
  BY <1>3 DEF Ends, None
<1>6. ASSUME NEW old, NEW next, NEW over, NEW then, NEW else, "at" \in DOMAIN old,
             Becomes(w, Rewrite(old, next, over, then, else))
      PROVE  FALSE
  <2>1. PICK j : j = Rewrite(old, next, over, then, else)
    OBVIOUS
  <2>2. j.at = "rewrite.life"
    BY <1>6, <2>1, RewriteIs
  <2>3. QED
    BY <1>3, <1>6, <2>1, <2>2
<1>7. ASSUME t.at \in Rewriting, NEW at, at \in {t.then, t.else}, Becomes(w, Calling(t, at)) PROVE FALSE
  <2>1. PICK j : j = Calling(t, at)
    OBVIOUS
  <2>2. j.at = at
    BY <1>2, <2>1, CallingIs
  <2>3. at # "close.remove"
    BY <1>2, <1>7 DEF JobFine, Purpose
  <2>4. QED
    BY <1>3, <1>7, <2>1, <2>2, <2>3
<1>8. ASSUME RewriteStep(w) PROVE FALSE
  <2>1. CASE RewriteLife(w)
    BY <1>1, <1>4, <1>7, <2>1 DEF RewriteLife, At, Rewriting
  <2>2. CASE RewriteUpdate(w)
    <3>1. PICK at : at = (IF Written(t, record) = t.next THEN t.then ELSE t.else)
      OBVIOUS
    <3>2. t.at = "rewrite.update" /\ Becomes(w, Calling(t, at)) /\ at \in {t.then, t.else}
      BY <1>1, <2>2, <3>1 DEF RewriteUpdate, At
    <3>3. QED
      BY <1>7, <3>2 DEF Rewriting
  <2>3. QED
    BY <1>8, <2>1, <2>2 DEF RewriteStep
<1>9. ASSUME CurrentStep(w) PROVE FALSE
  <2>1. ASSUME NEW at, Becomes(w, [t EXCEPT !.at = at, !.read = record]), at # "close.remove" PROVE FALSE
    <3>1. PICK j : j = [t EXCEPT !.at = at, !.read = record]
      OBVIOUS
    <3>2. j.at = at
      BY <1>2, <3>1
    <3>3. QED
      BY <1>3, <2>1, <3>1, <3>2
  <2>2. ASSUME NEW next, Answered(w, next) PROVE FALSE
    <3>1. PICK j : j = AnsweredAs(t, next)
      OBVIOUS
    <3>2. j.at = "renew.held"
      BY <1>2, <3>1 DEF AnsweredAs
    <3>3. Becomes(w, j)
      BY <1>1, <2>2, <3>1 DEF Answered, AnsweredAs
    <3>4. QED
      BY <1>3, <3>2, <3>3
  <2>3. ~RenewHeld(w)
    <3>1. SUFFICES ASSUME RenewHeld(w) PROVE FALSE
      OBVIOUS
    <3>2. PICK old : old = [at |-> "none", read |-> t.read]
      OBVIOUS
    <3>3. Becomes(w, Rewrite(old, t.next, t.read, "current.release", "current.release"))
      BY <1>1, <1>4, <3>1, <3>2 DEF RenewHeld
    <3>4. "at" \in DOMAIN old
      BY <3>2
    <3>5. QED
      BY <1>6, <3>3, <3>4
  <2>4. ~CurrentFind(w)
    BY <1>1, <1>5, <2>1 DEF CurrentFind
  <2>5. ~CurrentHold(w)
    BY <1>4, <1>5 DEF CurrentHold
  <2>6. ~CurrentAgain(w)
    BY <1>1, <1>4, <2>1 DEF CurrentAgain
  <2>7. ~RenewAsk(w)
    BY <1>4, <2>2 DEF RenewAsk
  <2>8. ~CurrentRelease(w)
    BY <1>5 DEF CurrentRelease
  <2>9. QED
    BY <1>9, <2>3, <2>4, <2>5, <2>6, <2>7, <2>8 DEF CurrentStep
<1>10. ASSUME KeepStep(w) PROVE FALSE
  <2>1. ~ReceiveKeep(w)
    <3>1. SUFFICES ASSUME ReceiveKeep(w) PROVE FALSE
      OBVIOUS
    <3>2. PICK old : old = [t EXCEPT !.attempts = @ + 1]
      OBVIOUS
    <3>3. "at" \in DOMAIN old
      BY <1>2, <3>2
    <3>4. CASE Becomes(w, Rewrite(old, t.entry, Gone, "receive.check", "receive.life"))
      BY <1>6, <3>3, <3>4
    <3>5. CASE Becomes(w, Rewrite(t, Empty, Gone, "end", "end"))
      BY <1>2, <1>6, <3>5
    <3>6. QED
      BY <1>1, <1>5, <3>1, <3>2, <3>4, <3>5 DEF ReceiveKeep, Ends
  <2>2. ~Forget(w)
    BY <1>1, <1>2, <1>6 DEF Forget
  <2>3. ~DisconnectFind(w)
    BY <1>1, <1>2, <1>5, <1>6 DEF DisconnectFind, Ends
  <2>4. ~ReceiveLife(w) /\ ~ReceiveSave(w)
    BY <1>4, <1>5 DEF ReceiveLife, ReceiveSave
  <2>5. ~ReceiveCheck(w) /\ ~ForgetLife(w)
    BY <1>4, <1>5 DEF ReceiveCheck, ForgetLife
  <2>6. ~ForgetRemove(w) /\ ~CloseRemove(w) /\ ~Over(w)
    BY <1>5 DEF ForgetRemove, CloseRemove, Over
  <2>7. QED
    BY <1>10, <2>1, <2>2, <2>3, <2>4, <2>5, <2>6 DEF KeepStep
<1>11. ~Crash(w)
  BY <1>5 DEF Crash
<1>12. ~BeginCurrent(w) /\ ~BeginReceive(w) /\ ~BeginDisconnect(w) /\ ~BeginWithdraw(w)
  BY <1>3 DEF BeginCurrent, BeginReceive, BeginDisconnect, BeginWithdraw, Begins
<1>13. QED
  BY <1>8, <1>9, <1>10, <1>11, <1>12 DEF Work, Begin, BeginClose

LEMMA InitCloseInv == Init => CloseInv
<1> SUFFICES ASSUME Init PROVE CloseInv
  OBVIOUS
<1>1. ~closed /\ record = Gone
  BY DEF Init
<1>2. \A w \in Worker : job[w] = None
  BY DEF Init
<1>3. None.at # "close.remove"
  BY DEF None
<1>4. QED
  BY <1>1, <1>2, <1>3 DEF CloseInv, At

LEMMA StepCloseInv == HInv /\ CloseInv /\ [Next]_vars => CloseInv'
<1> SUFFICES ASSUME HInv, CloseInv, [Next]_vars PROVE CloseInv'
  OBVIOUS
<1>1. LInv /\ load' = load
  BY DEF HInv, Next, vars
<1>2. ASSUME UNCHANGED <<entering, closed, record, job>> PROVE CloseInv'
  BY <1>1, <1>2 DEF CloseInv, At, Strong
<1>3. CASE UNCHANGED vars \/ Shortens \/ StepsUp \/ LockLapses
  BY <1>2, <1>3 DEF vars, sessionVars, Shortens, StepsUp, LockLapses
<1>4. ASSUME NEW w \in Worker, Work(w) \/ Crash(w) \/ Begin(w) PROVE CloseInv'
  <2>1. \A v \in Worker \ {w} : job'[v] = job[v]
    BY <1>1, <1>4, OneJob
  <2>2. /\ entering' = entering \/ entering' = FALSE
        /\ closed' = closed \/ (At(w, "close.remove") /\ record' = Gone)
    BY <1>4, ClosingSteps
  <2>3. closed' => ~entering'
    BY <2>2 DEF CloseInv
  <2>4. ASSUME NEW v \in Worker, job'[v].at = "close.remove" PROVE ~entering'
    BY <1>1, <1>4, <2>1, <2>2, <2>4, CloseBegins DEF CloseInv, At
  <2>5. ASSUME load.crashes \cap TakesOut = {}, closed', record' # Gone PROVE \E v \in Worker : Strong(job'[v])
    <3>1. closed /\ ~Lives
      BY <2>2, <2>5 DEF CloseInv, Lives
    <3>2. CASE record = Gone
      BY <1>1, <1>4, <2>5, <3>2, SavedStrong
    <3>3. CASE record # Gone
      <4>1. PICK v \in Worker : Strong(job[v])
        BY <2>5, <3>1, <3>3 DEF CloseInv
      <4>2. CASE v # w
        BY <2>1, <4>1, <4>2
      <4>3. CASE v = w
        <5>1. ~Crash(w)
          BY <2>5, <4>1, <4>3 DEF Crash, Strong, TakesOut, Leaves
        <5>2. ~Begin(w)
          <6>1. ~Strong(None)
            BY DEF Strong, Leaves, None
          <6>2. Begin(w) => Idle(w)
            BY DEF Begin, BeginCurrent, BeginReceive, BeginDisconnect, BeginWithdraw, BeginClose, Begins
          <6>3. QED
            BY <4>1, <4>3, <6>1, <6>2 DEF Idle
        <5>3. QED
          BY <1>1, <1>4, <2>5, <3>1, <4>1, <4>3, <5>1, <5>2, StrongStays
      <4>4. QED
        BY <4>2, <4>3
    <3>4. QED
      BY <3>2, <3>3
  <2>6. QED
    BY <1>1, <2>3, <2>4, <2>5 DEF CloseInv, At, Strong
<1>5. QED
  BY <1>3, <1>4 DEF Next, Begin

(* Once this participant closed a session no token of it is kept but while *)
(* a login's receive or a withdrawal is about to take it out, for any      *)
(* number of requests over any hosts, where none of them stops in the      *)
(* midst of it (renewal.ts receive, forget).                               *)
THEOREM ClosedTakesTokensOut == Spec => []ClosedKeepsNoTokens
<1>1. Init => HInv /\ CloseInv
  BY InitHInv, InitCloseInv
<1>2. HInv /\ CloseInv /\ [Next]_vars => (HInv /\ CloseInv)'
  BY StepHInv, StepCloseInv
<1>3. HInv /\ CloseInv => ClosedKeepsNoTokens
  <2>1. ASSUME HInv, NEW w \in Worker, Strong(job[w]) PROVE TakingOut(w)
    BY <2>1 DEF HInv, EnteredInv, Entered, Strong, Leaves, Rewriting, TakingOut, At
  <2>2. QED
    BY <2>1 DEF CloseInv, ClosedKeepsNoTokens
<1>4. QED
  BY <1>1, <1>2, <1>3, PTL DEF Spec

----------------------------------------------------------------------------
(* What the troubles so far are good for: each rotated token sent again,   *)
(* each request about to send one, and a rotated token in the record that  *)
(* nobody under the lock is about to replace.                              *)
Owes(w, j, l, gone) ==
  j.at \in {"current.again", "renew.ask"} /\ (l # w \/ (j.at = "renew.ask" /\ j.read.token \in gone))
Debtors == {w \in Worker : Owes(w, job[w], lock, rotated)}

Mends(j, r) ==
  \/ j.at \in {"renew.ask", "renew.held"} /\ j.read = r
  \/ j.at \in Rewriting /\ j.then = "current.release" /\ j.over = r
Stale ==
  /\ Linked(record) /\ record.token \in rotated
  /\ \A w \in Worker : lock = w => ~Mends(job[w], record)

OpenStill == entering /\ spell = "not yet"

DebtInv ==
  /\ IsFiniteSet(Debtors)
  /\ OpenStill => resent + Cardinality(Debtors) + (IF Stale THEN 1 ELSE 0) <= troubles

LEMMA SetSizes ==
  ASSUME NEW S, IsFiniteSet(S), NEW T, NEW x, T \subseteq S \cup {x}
  PROVE  /\ IsFiniteSet(T) /\ Cardinality(S) \in Nat /\ Cardinality(T) \in Nat
         /\ Cardinality(T) <= Cardinality(S) + 1
         /\ T \subseteq S => Cardinality(T) <= Cardinality(S)
         /\ \A w \in S \ T : Cardinality(T) <= Cardinality(S)
         /\ \A w \in S \ T : T \subseteq S => Cardinality(T) + 1 <= Cardinality(S)
<1>1. /\ IsFiniteSet(S \cup {x}) /\ Cardinality(S \cup {x}) \in Nat /\ Cardinality(S) \in Nat
      /\ Cardinality(S \cup {x}) <= Cardinality(S) + 1
  BY FS_AddElement, FS_CardinalityType
<1>2. IsFiniteSet(T) /\ Cardinality(T) \in Nat /\ Cardinality(T) <= Cardinality(S \cup {x})
  BY <1>1, FS_Subset, FS_CardinalityType
<1>3. T \subseteq S => Cardinality(T) <= Cardinality(S)
  BY FS_Subset
<1>4. ASSUME NEW w \in S \ T
      PROVE  Cardinality(T) <= Cardinality(S) /\ (T \subseteq S => Cardinality(T) + 1 <= Cardinality(S))
  <2>1. IsFiniteSet(S \ {w}) /\ Cardinality(S \ {w}) \in Nat /\ Cardinality(S \ {w}) = Cardinality(S) - 1
    BY <1>4, FS_RemoveElement, FS_CardinalityType
  <2>2. T \subseteq S => Cardinality(T) <= Cardinality(S \ {w})
    BY <1>4, <2>1, FS_Subset
  <2>3. T \subseteq (S \ {w}) \cup {x}
    BY <1>4
  <2>4. /\ IsFiniteSet((S \ {w}) \cup {x}) /\ Cardinality((S \ {w}) \cup {x}) \in Nat
        /\ Cardinality((S \ {w}) \cup {x}) <= Cardinality(S \ {w}) + 1
    <3>1. PICK U : U = S \ {w}
      OBVIOUS
    <3>2. IsFiniteSet(U) /\ Cardinality(U) \in Nat
      BY <2>1, <3>1
    <3>3. IsFiniteSet(U \cup {x}) /\ Cardinality(U \cup {x}) = IF x \in U THEN Cardinality(U) ELSE Cardinality(U) + 1
      BY <3>2, FS_AddElement
    <3>4. Cardinality(U \cup {x}) \in Nat /\ Cardinality(U \cup {x}) <= Cardinality(U) + 1
      BY <3>2, <3>3
    <3>5. QED
      BY <3>1, <3>2, <3>3, <3>4
  <2>5. Cardinality(T) <= Cardinality((S \ {w}) \cup {x})
    BY <2>3, <2>4, FS_Subset
  <2>6. QED
    BY <1>1, <1>2, <2>1, <2>2, <2>4, <2>5
<1>5. QED
  BY <1>1, <1>2, <1>3, <1>4

(* How a step leaves the debts covered.                                    *)
LEMMA DebtSum ==
  ASSUME RestOK, DebtInv, OpenStill' => OpenStill, NEW x, Debtors' \subseteq Debtors \cup {x},
         OpenStill =>
           \/ resent' = resent /\ troubles' = troubles /\ Debtors' \subseteq Debtors /\ (Stale' => Stale)
           \/ resent' = resent /\ troubles' = troubles + 1 /\ (Debtors' \subseteq Debtors \/ (Stale' => Stale))
           \/ resent' = resent /\ troubles' = troubles /\ Stale /\ ~Stale'
           \/ /\ \E w \in Debtors : w \notin Debtors'
              /\ \/ resent' = resent + 1 /\ Debtors' \subseteq Debtors /\ (Stale' => Stale)
                 \/ resent' = resent /\ (Debtors' \subseteq Debtors \/ (Stale' => Stale))
              /\ troubles' \in {troubles, troubles + 1}
  PROVE  DebtInv'
<1>1. PICK S, T, s, t : S = Debtors /\ T = Debtors' /\ s = (IF Stale THEN 1 ELSE 0) /\ t = (IF Stale' THEN 1 ELSE 0)
  OBVIOUS
<1>2. /\ IsFiniteSet(T) /\ Cardinality(S) \in Nat /\ Cardinality(T) \in Nat
      /\ Cardinality(T) <= Cardinality(S) + 1
      /\ T \subseteq S => Cardinality(T) <= Cardinality(S)
      /\ \A w \in S \ T : Cardinality(T) <= Cardinality(S)
      /\ \A w \in S \ T : T \subseteq S => Cardinality(T) + 1 <= Cardinality(S)
  BY <1>1, SetSizes DEF DebtInv
<1>3. s \in {0, 1} /\ t \in {0, 1} /\ ((Stale' => Stale) => t <= s) /\ (Stale /\ ~Stale' => s = 1 /\ t = 0)
  BY <1>1
<1>4. resent \in Nat /\ troubles \in Nat
  <2>1. troubles \in 0 .. load.troubles
    BY DEF RestOK
  <2>2. troubles \in Nat
    BY <2>1
  <2>3. resent \in Nat
    BY DEF RestOK
  <2>4. QED
    BY <2>2, <2>3
<1>5. ASSUME OpenStill' PROVE resent' + Cardinality(T) + t <= troubles'
  <2>1. OpenStill /\ resent + Cardinality(S) + s <= troubles
    BY <1>1, <1>5 DEF DebtInv
  <2>2. CASE resent' = resent /\ troubles' = troubles /\ T \subseteq S /\ (Stale' => Stale)
    BY <1>2, <1>3, <1>4, <2>1, <2>2
  <2>3. CASE resent' = resent /\ troubles' = troubles + 1 /\ (T \subseteq S \/ (Stale' => Stale))
    BY <1>2, <1>3, <1>4, <2>1, <2>3
  <2>4. CASE resent' = resent /\ troubles' = troubles /\ Stale /\ ~Stale'
    BY <1>2, <1>3, <1>4, <2>1, <2>4
  <2>5. CASE /\ \E w \in S : w \notin T
             /\ \/ resent' = resent + 1 /\ T \subseteq S /\ (Stale' => Stale)
                \/ resent' = resent /\ (T \subseteq S \/ (Stale' => Stale))
             /\ troubles' \in {troubles, troubles + 1}
    <3>1. Cardinality(T) <= Cardinality(S) /\ (T \subseteq S => Cardinality(T) + 1 <= Cardinality(S))
      BY <1>2, <2>5
    <3>2. QED
      BY <1>2, <1>3, <1>4, <2>1, <2>5, <3>1
  <2>6. QED
    BY <1>1, <2>1, <2>2, <2>3, <2>4, <2>5
<1>6. QED
  BY <1>1, <1>2, <1>5 DEF DebtInv

(* A step of a request that is in no debt by it, and leaves the record     *)
(* mended if it was about to be.                                           *)
LEMMA QuietDebt ==
  ASSUME LInv, RestOK, DebtInv, NEW w \in Worker, NEW j, Becomes(w, j), OpenStill' => OpenStill,
         UNCHANGED <<lock, rotated, resent, troubles>>,
         Owes(w, j, lock, rotated) => Owes(w, job[w], lock, rotated),
         OpenStill =>
           \/ record' = record /\ (lock = w /\ Mends(job[w], record) => Mends(j, record) \/ record.token \notin rotated)
           \/ ~Linked(record') \/ record'.token \notin rotated
  PROVE  DebtInv'
<1>1. job'[w] = j /\ \A v \in Worker \ {w} : job'[v] = job[v]
  BY DEF Becomes, LInv
<1>2. Debtors' \subseteq Debtors
  BY <1>1 DEF Debtors, Owes
<1>3. OpenStill => (Stale' => Stale)
  <2>1. SUFFICES ASSUME OpenStill, Stale' PROVE Stale
    OBVIOUS
  <2>2. PICK r : r = record'
    OBVIOUS
  <2>3. Linked(r) /\ r.token \in rotated /\ \A v \in Worker : lock = v => ~Mends(job'[v], r)
    BY <2>1, <2>2 DEF Stale, Linked, Mends
  <2>4. record = r /\ (lock = w /\ Mends(job[w], record) => Mends(j, record))
    BY <2>1, <2>2, <2>3
  <2>5. ASSUME NEW v \in Worker, lock = v PROVE ~Mends(job[v], record)
    BY <1>1, <2>3, <2>4, <2>5
  <2>6. QED
    BY <2>3, <2>4, <2>5 DEF Stale
<1>4. Debtors' \subseteq Debtors \cup {w}
  BY <1>2
<1>5. QED
  BY <1>2, <1>3, <1>4, DebtSum

(* Of a request at none of the steps that can owe or mend.                 *)
LEMMA AsideDebt ==
  ASSUME LInv, RestOK, DebtInv, NEW w \in Worker, NEW j, Becomes(w, j), OpenStill' => OpenStill,
         UNCHANGED <<lock, rotated, resent, troubles>>, record' = record \/ ~Linked(record') \/ record'.token \notin rotated,
         job[w].at \notin {"renew.ask", "renew.held"}, job[w].at \notin Rewriting, j.at \notin {"current.again", "renew.ask"}
  PROVE  DebtInv'
<1>1. ~Mends(job[w], record)
  BY DEF Mends
<1>2. ~Owes(w, j, lock, rotated)
  BY DEF Owes
<1>3. QED
  BY <1>1, <1>2, QuietDebt

LEMMA AsideGoes ==
  ASSUME LInv, RestOK, DebtInv, NEW w \in Worker, NEW at, Goes(w, at), OpenStill' => OpenStill,
         UNCHANGED <<lock, rotated, resent, troubles>>, record' = record \/ ~Linked(record') \/ record'.token \notin rotated,
         job[w].at \notin {"renew.ask", "renew.held"}, job[w].at \notin Rewriting, at \notin {"current.again", "renew.ask"}
  PROVE  DebtInv'
<1>1. PICK t, j : t = job[w] /\ j = [t EXCEPT !.at = at]
  OBVIOUS
<1>2. "at" \in DOMAIN t
  BY <1>1 DEF LInv, JobFine
<1>3. j.at = at /\ Becomes(w, j)
  BY <1>1, <1>2 DEF Goes
<1>4. QED
  BY <1>3, AsideDebt

LEMMA AsideWrites ==
  ASSUME LInv, RestOK, DebtInv, NEW w \in Worker, OpenStill' => OpenStill,
         UNCHANGED <<record, lock, rotated, resent, troubles>>,
         job[w].at \notin {"renew.ask", "renew.held"}, job[w].at \notin Rewriting,
         NEW old, NEW next, NEW over, NEW then, NEW else, "at" \in DOMAIN old,
         Becomes(w, Rewrite(old, next, over, then, else))
  PROVE  DebtInv'
<1>1. PICK j : j = Rewrite(old, next, over, then, else)
  OBVIOUS
<1>2. j.at = "rewrite.life"
  BY <1>1, RewriteIs
<1>3. QED
  BY <1>1, <1>2, AsideDebt

LEMMA KeepDebt ==
  ASSUME HInv, RestOK, DebtInv, NEW w \in Worker, KeepStep(w)
  PROVE  DebtInv'
<1>1. PICK t : t = job[w]
  OBVIOUS
<1>2. LInv /\ JobFine(t) /\ "at" \in DOMAIN t
  BY <1>1 DEF HInv, LInv, JobFine
<1>3. /\ UNCHANGED <<lock, rotated, resent, troubles, entering, spell>>
      /\ t.at \notin {"renew.ask", "renew.held"} /\ t.at \notin Rewriting
  BY <1>1 DEF KeepStep, ReceiveKeep, ReceiveLife, ReceiveSave, ReceiveCheck, Forget, ForgetLife, ForgetRemove,
              DisconnectFind, CloseRemove, Over, upstreamVars, sessionVars, At, Rewriting
<1>4. OpenStill' => OpenStill
  BY <1>3 DEF OpenStill
<1>5. ASSUME Ends(w), record' \in {record, Gone} PROVE DebtInv'
  <2>1. None.at \notin {"current.again", "renew.ask"}
    BY DEF None
  <2>2. QED
    BY <1>1, <1>2, <1>3, <1>4, <1>5, <2>1, Entries, AsideDebt DEF Ends
<1>6. ASSUME NEW at, Goes(w, at), record' = record, at \notin {"current.again", "renew.ask"} PROVE DebtInv'
  BY <1>1, <1>2, <1>3, <1>4, <1>6, AsideGoes
<1>7. ASSUME NEW old, NEW next, NEW over, NEW then, NEW else, "at" \in DOMAIN old,
             Becomes(w, Rewrite(old, next, over, then, else)), record' = record
      PROVE  DebtInv'
  BY <1>1, <1>2, <1>3, <1>4, <1>7, AsideWrites
<1>8. CASE ReceiveKeep(w)
  <2>1. PICK old : old = [t EXCEPT !.attempts = @ + 1]
    OBVIOUS
  <2>2. "at" \in DOMAIN old
    BY <1>2, <2>1
  <2>3. CASE Becomes(w, Rewrite(old, t.entry, Gone, "receive.check", "receive.life")) /\ record' = record
    BY <1>7, <2>2, <2>3
  <2>4. CASE Becomes(w, Rewrite(t, Empty, Gone, "end", "end")) /\ record' = record
    BY <1>2, <1>7, <2>4
  <2>5. QED
    BY <1>1, <1>5, <1>8, <2>1, <2>3, <2>4 DEF ReceiveKeep, Ends
<1>9. CASE ReceiveLife(w)
  BY <1>5, <1>6, <1>9 DEF ReceiveLife
<1>10. CASE ReceiveSave(w)
  <2>1. CASE record' = record /\ Goes(w, "receive.keep")
    BY <1>6, <2>1
  <2>2. CASE record' = t.entry /\ Goes(w, "receive.check")
    <3>1. t.at = "receive.save" /\ Receiving(t)
      BY <1>1, <1>10 DEF ReceiveSave, At, Receiving, Receives
    <3>2. Linked(t.entry) /\ Pends(job[w], t.entry)
      BY <1>1, <1>2, <3>1 DEF LInv, Unwritten, Pends
    <3>3. record'.token \notin rotated
      BY <2>2, <3>2 DEF HInv, PendInv
    <3>4. QED
      BY <1>1, <1>2, <1>3, <1>4, <2>2, <3>3, AsideGoes
  <2>3. QED
    BY <1>1, <1>10, <2>1, <2>2 DEF ReceiveSave
<1>11. CASE ReceiveCheck(w)
  BY <1>5, <1>6, <1>11 DEF ReceiveCheck
<1>12. CASE Forget(w)
  BY <1>1, <1>2, <1>7, <1>12 DEF Forget
<1>13. CASE ForgetLife(w)
  BY <1>5, <1>6, <1>13 DEF ForgetLife
<1>14. CASE ForgetRemove(w) \/ CloseRemove(w) \/ Over(w)
  BY <1>5, <1>14 DEF ForgetRemove, CloseRemove, Over
<1>15. CASE DisconnectFind(w)
  BY <1>1, <1>2, <1>5, <1>7, <1>15 DEF DisconnectFind, Ends
<1>16. QED
  BY <1>8, <1>9, <1>10, <1>11, <1>12, <1>13, <1>14, <1>15 DEF KeepStep

LEMMA BeginDebt ==
  ASSUME HInv, RestOK, DebtInv, NEW w \in Worker, Begin(w)
  PROVE  DebtInv'
<1>1. LInv
  BY DEF HInv
<1>2. Idle(w) /\ UNCHANGED <<record, lock, rotated, resent, troubles, spell>> /\ (entering' = entering \/ entering' = FALSE)
  BY DEF Begin, BeginCurrent, BeginReceive, BeginDisconnect, BeginWithdraw, BeginClose, Begins, sessionVars, upstreamVars
<1>3. OpenStill' => OpenStill
  BY <1>2 DEF OpenStill
<1>4. job[w].at = "none"
  BY <1>2 DEF Idle, None
<1>5. ASSUME NEW j, Becomes(w, j), j.at \notin {"current.again", "renew.ask"} PROVE DebtInv'
  BY <1>1, <1>2, <1>3, <1>4, <1>5, AsideDebt DEF Rewriting
<1>6. CASE BeginCurrent(w)
  BY <1>5, <1>6 DEF BeginCurrent, Begins
<1>7. CASE BeginReceive(w)
  <2>1. PICK j : j = [at |-> "receive.keep", entry |-> Entry(logins', issued'), attempts |-> 0]
    OBVIOUS
  <2>2. Becomes(w, j) /\ j.at = "receive.keep"
    BY <1>7, <2>1 DEF BeginReceive, Begins
  <2>3. QED
    BY <1>5, <2>2
<1>8. CASE BeginDisconnect(w) \/ BeginClose(w)
  BY <1>5, <1>8 DEF BeginDisconnect, BeginClose, Begins
<1>9. CASE BeginWithdraw(w)
  BY <1>5, <1>9 DEF BeginWithdraw, Begins
<1>10. QED
  BY <1>6, <1>7, <1>8, <1>9 DEF Begin

LEMMA RewriteDebt ==
  ASSUME HInv, RestOK, DebtInv, NEW w \in Worker, RewriteStep(w)
  PROVE  DebtInv'
<1>1. PICK t : t = job[w]
  OBVIOUS
<1>2. LInv /\ JobFine(t) /\ "at" \in DOMAIN t
  BY <1>1 DEF HInv, LInv, JobFine
<1>3. UNCHANGED <<lock, rotated, resent, troubles, entering, spell>> /\ t.at \in Rewriting
  BY <1>1 DEF RewriteStep, RewriteLife, RewriteUpdate, upstreamVars, sessionVars, At, Rewriting
<1>4. OpenStill' => OpenStill
  BY <1>3 DEF OpenStill
<1>5. Purpose(t) /\ Named \subseteq DOMAIN t
  BY <1>2, <1>3 DEF JobFine
<1>6. CASE RewriteLife(w)
  <2>1. record' = record /\ t.at = "rewrite.life"
    BY <1>1, <1>6 DEF RewriteLife, At
  <2>2. CASE Lives
    <3>1. PICK j : j = [t EXCEPT !.at = "rewrite.update"]
      OBVIOUS
    <3>2. Becomes(w, j)
      BY <1>1, <1>6, <2>2, <3>1 DEF RewriteLife, Goes
    <3>3. j.at = "rewrite.update" /\ j.then = t.then /\ j.over = t.over
      BY <1>2, <1>5, <3>1 DEF Named
    <3>4. Mends(t, record) => Mends(j, record)
      BY <2>1, <3>3 DEF Mends, Rewriting
    <3>5. ~Owes(w, j, lock, rotated)
      BY <3>3 DEF Owes
    <3>6. QED
      BY <1>1, <1>2, <1>3, <1>4, <2>1, <3>2, <3>4, <3>5, QuietDebt
  <2>3. CASE ~Lives
    <3>1. PICK j : j = Calling(t, t.else)
      OBVIOUS
    <3>2. Becomes(w, j) /\ j.at = t.else
      BY <1>1, <1>2, <1>6, <2>3, <3>1, CallingIs DEF RewriteLife
    <3>3. ~Owes(w, j, lock, rotated)
      BY <1>5, <3>2 DEF Owes, Purpose
    <3>4. ~OpenStill
      BY <2>3 DEF OpenStill, Lives
    <3>5. QED
      BY <1>2, <1>3, <1>4, <3>2, <3>3, <3>4, QuietDebt
  <2>4. QED
    BY <2>2, <2>3
<1>7. CASE RewriteUpdate(w)
  <2>1. PICK after, at, j : /\ after = Written(t, record)
                            /\ at = (IF after = t.next THEN t.then ELSE t.else)
                            /\ j = Calling(t, at)
    OBVIOUS
  <2>2. t.at = "rewrite.update" /\ record' = after /\ Becomes(w, j)
    BY <1>1, <1>7, <2>1 DEF RewriteUpdate, At
  <2>3. ~Owes(w, j, lock, rotated)
    <3>1. j.at = at
      BY <1>2, <2>1, CallingIs
    <3>2. QED
      BY <1>5, <2>1, <3>1 DEF Owes, Purpose
  (* What is written is not rotated: it was pending.                       *)
  <2>4. ASSUME after = t.next, Linked(after) PROVE after.token \notin rotated
    <3>1. (Receiving(t) /\ t.entry = after) \/ Renews(t)
      <4>1. CASE t.then = "current.release"
        BY <2>2, <4>1 DEF Renews, Rewriting
      <4>2. CASE t.next = t.entry /\ t.then = "receive.check"
        BY <2>2, <2>4, <4>2 DEF Receiving, Rewriting
      <4>3. t.next # Empty
        BY <2>4, Entries
      <4>4. QED
        BY <1>5, <4>1, <4>2, <4>3 DEF Purpose
    <3>2. Pends(job[w], after)
      BY <1>1, <2>4, <3>1 DEF Pends
    <3>3. QED
      BY <3>2 DEF HInv, PendInv
  <2>5. ASSUME after # t.next PROVE after = record /\ (Mends(t, record) => record = Gone)
    <3>1. after = record /\ (record = Gone \/ t.over # record)
      BY <2>1, <2>5 DEF Written
    <3>2. QED
      BY <2>2, <3>1 DEF Mends, Rewriting
  <2>6. CASE after = t.next
    BY <1>1, <1>2, <1>3, <1>4, <2>2, <2>3, <2>4, <2>6, QuietDebt
  <2>7. CASE after # t.next /\ record # Gone
    BY <1>1, <1>2, <1>3, <1>4, <2>2, <2>3, <2>5, <2>7, QuietDebt
  <2>8. CASE after # t.next /\ record = Gone
    BY <1>1, <1>2, <1>3, <1>4, <2>2, <2>3, <2>5, <2>8, Entries, QuietDebt
  <2>9. QED
    BY <2>6, <2>7, <2>8
<1>8. QED
  BY <1>6, <1>7 DEF RewriteStep

(* The lock lets at most its holder's renewal go unmended, and puts at     *)
(* most its holder in debt.                                                *)
LEMMA LockDebt ==
  ASSUME LInv, RestOK, DebtInv, LockLapses
  PROVE  DebtInv'
<1>1. /\ lock \in Worker /\ lock' = "none" /\ "none" \notin Worker
      /\ UNCHANGED <<record, rotated, resent, entering, spell, job>>
  BY RenewalAssumption DEF LockLapses, RestOK, sessionVars, upstreamVars
<1>2. OpenStill' => OpenStill
  BY <1>1 DEF OpenStill
<1>3. PICK x \in Worker : x = lock
  BY <1>1
<1>4. Debtors' \subseteq Debtors \cup {x}
  BY <1>1, <1>3 DEF Debtors, Owes
<1>5. Stale' => Linked(record) /\ record.token \in rotated
  BY <1>1 DEF Stale, Linked
<1>6. (Stale' => Stale) \/ Mends(job[x], record)
  BY <1>3, <1>5 DEF Stale
<1>7. CASE (job[x].at = "none" \/ job[x].at = "current.hold") /\ troubles' = troubles
  <2>1. ~Mends(job[x], record) /\ Debtors' \subseteq Debtors
    BY <1>1, <1>3, <1>7 DEF Mends, Rewriting, Debtors, Owes
  <2>2. QED
    BY <1>1, <1>2, <1>4, <1>6, <1>7, <2>1, DebtSum
<1>8. CASE troubles' = troubles + 1
  <2>1. Debtors' \subseteq Debtors \/ (Stale' => Stale)
    <3>1. SUFFICES ASSUME Stale', ~Stale PROVE Debtors' \subseteq Debtors
      OBVIOUS
    <3>2. Mends(job[x], record) /\ record.token \in rotated
      BY <1>5, <1>6, <3>1
    <3>3. job[x].at = "renew.ask" => job[x].read.token \in rotated
      BY <3>2 DEF Mends, Rewriting
    <3>4. job[x].at # "current.again"
      BY <3>2 DEF Mends, Rewriting
    <3>5. QED
      BY <1>1, <1>3, <3>3, <3>4 DEF Debtors, Owes
  <2>2. QED
    BY <1>1, <1>2, <1>4, <1>8, <2>1, DebtSum
<1>9. QED
  BY <1>3, <1>7, <1>8 DEF LockLapses, Idle, None, At, Trouble

LEMMA CrashDebt ==
  ASSUME LInv, RestOK, DebtInv, NEW w \in Worker, Crash(w)
  PROVE  DebtInv'
<1>1. job'[w] = None /\ \A v \in Worker \ {w} : job'[v] = job[v]
  BY DEF Crash, Ends, Becomes, LInv
<1>2. UNCHANGED <<lock, rotated, resent, entering, spell>> /\ troubles' = troubles + 1
  BY DEF Crash, Trouble, upstreamVars, sessionVars
<1>3. None.at = "none"
  BY DEF None
<1>4. Debtors' \subseteq Debtors
  BY <1>1, <1>2, <1>3 DEF Debtors, Owes
<1>5. Debtors' \subseteq Debtors \cup {w} /\ (OpenStill' => OpenStill)
  BY <1>2, <1>4 DEF OpenStill
<1>6. QED
  BY <1>2, <1>4, <1>5, DebtSum

(* Of two versions read or kept with one token.                            *)
LEMMA SameToken ==
  ASSUME HInv, NEW d, NEW e, OnHand(d), OnHand(e), Linked(d), Linked(e), d.token = e.token
  PROVE  d = e
BY DEF HInv, HandInv

LEMMA AskDebt ==
  ASSUME HInv, RestOK, DebtInv, NEW w \in Worker, RenewAsk(w)
  PROVE  DebtInv'
<1>1. PICK t, x : t = job[w] /\ x = t.read
  OBVIOUS
<1>2. /\ LInv /\ JobFine(t) /\ "at" \in DOMAIN t /\ t.at = "renew.ask"
      /\ UNCHANGED <<record, lock, entering, spell>>
  BY <1>1 DEF HInv, LInv, JobFine, RenewAsk, At, sessionVars
<1>3. {"read", "next"} \subseteq DOMAIN t /\ Linked(x) /\ OnHand(x) /\ OnHand(record)
  BY <1>1, <1>2 DEF JobFine, Renewals, OnHand, Holds, Fields
<1>4. OpenStill' => OpenStill
  BY <1>2 DEF OpenStill
<1>5. rotated \cap valid = {}
  BY DEF HInv, HandInv
<1>6. Owes(w, t, lock, rotated) <=> lock # w \/ x.token \in rotated
  BY <1>1, <1>2 DEF Owes
(* What the step makes of the request.                                     *)
<1>7. ASSUME NEW next, Answered(w, next)
      PROVE  \E j : Becomes(w, j) /\ j.at = "renew.held" /\ j.read = x
  <2>1. PICK j : j = AnsweredAs(t, next)
    OBVIOUS
  <2>2. Becomes(w, j)
    BY <1>1, <1>7, <2>1 DEF Answered, AnsweredAs
  <2>3. j.at = "renew.held" /\ j.read = x
    BY <1>1, <1>2, <1>3, <2>1 DEF AnsweredAs
  <2>4. QED
    BY <2>2, <2>3
<1>8. ASSUME Goes(w, "current.release") PROVE \E j : Becomes(w, j) /\ j.at = "current.release"
  <2>1. PICK j : j = [t EXCEPT !.at = "current.release"]
    OBVIOUS
  <2>2. Becomes(w, j) /\ j.at = "current.release"
    BY <1>1, <1>2, <1>8, <2>1 DEF Goes
  <2>3. QED
    BY <2>2
<1>9. PICK j : Becomes(w, j) /\ ((j.at = "renew.held" /\ j.read = x) \/ j.at = "current.release")
  BY <1>7, <1>8 DEF RenewAsk
<1>10. job'[w] = j /\ \A v \in Worker \ {w} : job'[v] = job[v]
  BY <1>2, <1>9 DEF Becomes, LInv
<1>11. ~Owes(w, j, lock, rotated) /\ w \notin Debtors'
  <2>1. j.at \notin {"current.again", "renew.ask"}
    BY <1>9
  <2>2. QED
    BY <1>10, <2>1 DEF Owes, Debtors
<1>12. w \in Debtors <=> lock # w \/ x.token \in rotated
  BY <1>1, <1>6 DEF Debtors
(* Rotated: whoever read the token too owes it now, if it holds the lock.  *)
<1>13. CASE /\ x.token \in valid /\ rotated' = rotated \cup {x.token} /\ resent' = resent
            /\ \/ troubles' = troubles /\ j.at = "renew.held" /\ j.read = x
               \/ troubles' = troubles + 1
  <2>1. ASSUME NEW v \in Debtors' PROVE v \in Debtors \/ (v = lock /\ lock # w /\ Linked(job[v].read) /\ job[v].read.token = x.token
                                                         /\ job[v].at = "renew.ask")
    <3>1. v # w /\ v \in Worker /\ job'[v] = job[v] /\ Owes(v, job[v], lock, rotated')
      BY <1>2, <1>10, <1>11, <2>1 DEF Debtors, Owes
    <3>2. CASE lock # v
      BY <3>1, <3>2 DEF Debtors, Owes
    <3>3. CASE lock = v
      <4>1. job[v].at = "renew.ask" /\ job[v].read.token \in rotated'
        BY <3>1, <3>3 DEF Owes
      <4>2. Linked(job[v].read)
        BY <1>2, <3>1, <4>1 DEF LInv, JobFine
      <4>3. QED
        BY <1>13, <3>1, <3>3, <4>1, <4>2 DEF Debtors, Owes
    <3>4. QED
      BY <3>2, <3>3
  <2>2. Debtors' \subseteq Debtors \cup {lock}
    BY <2>1
  <2>3. CASE lock = w
    <3>1. Debtors' \subseteq Debtors
      BY <2>1, <2>3
    <3>2. ASSUME troubles' = troubles, Stale' PROVE Stale
      <4>1. PICK r : r = record'
        OBVIOUS
      <4>2. Linked(r) /\ r.token \in rotated' /\ ~Mends(job'[w], r) /\ r = record
        BY <1>2, <2>3, <3>2, <4>1 DEF Stale, Linked, Mends
      <4>3. j.at = "renew.held" /\ j.read = x
        <5>1. troubles \in 0 .. load.troubles
          BY DEF RestOK
        <5>2. troubles # troubles + 1
          BY <5>1
        <5>3. QED
          BY <1>13, <3>2, <5>2
      <4>4. r # x
        BY <1>10, <4>2, <4>3 DEF Mends
      <4>5. r.token # x.token
        BY <1>3, <4>2, <4>4, SameToken
      <4>6. ~Mends(job[w], record)
        BY <1>1, <1>2, <4>2, <4>4 DEF Mends, Rewriting
      <4>7. QED
        BY <1>13, <2>3, <4>2, <4>5, <4>6 DEF Stale
    <3>3. QED
      BY <1>4, <1>13, <2>2, <3>1, <3>2, DebtSum
  <2>4. CASE lock # w
    <3>1. w \in Debtors
      BY <1>12, <2>4
    <3>2. Debtors' \subseteq Debtors \/ (Stale' => Stale)
      <4>1. SUFFICES ASSUME NEW v \in Debtors', v \notin Debtors, Stale' PROVE Stale
        OBVIOUS
      <4>2. v = lock /\ v # w /\ Linked(job[v].read) /\ job[v].read.token = x.token /\ job[v].at = "renew.ask" /\ v \in Worker
        BY <2>1, <4>1 DEF Debtors
      <4>3. "read" \in DOMAIN job[v]
        BY <1>2, <4>2 DEF LInv, JobFine, Renewals
      <4>4. job[v].read = x
        BY <1>3, <4>2, <4>3, SameToken DEF OnHand, Holds, Fields
      <4>5. PICK r : r = record'
        OBVIOUS
      <4>6. Linked(r) /\ r.token \in rotated' /\ ~Mends(job'[v], r) /\ r = record
        BY <1>2, <4>1, <4>2, <4>5 DEF Stale, Linked, Mends
      <4>7. r # x /\ ~Mends(job[v], r)
        BY <1>10, <4>2, <4>4, <4>6 DEF Mends
      <4>8. r.token # x.token
        BY <1>3, <4>6, <4>7, SameToken
      <4>9. QED
        BY <1>13, <4>2, <4>6, <4>7, <4>8 DEF Stale
    <3>3. troubles' \in {troubles, troubles + 1}
      BY <1>13
    <3>4. QED
      BY <1>4, <1>11, <1>13, <2>2, <3>1, <3>2, <3>3, DebtSum
  <2>5. QED
    BY <2>3, <2>4
(* Not rotated by the step.                                                *)
<1>14. CASE rotated' = rotated /\ troubles' = troubles /\ resent' \in {resent, resent + 1}
            /\ (resent' # resent => x.token \in rotated)
            /\ (x.token \in rotated => j.at = "renew.held" /\ j.read = x)
  <2>1. Debtors' \subseteq Debtors
    BY <1>2, <1>10, <1>11, <1>14 DEF Debtors, Owes
  <2>2. Mends(t, record) => Mends(j, record) \/ record.token \notin rotated
    BY <1>1, <1>2, <1>14 DEF Mends, Rewriting
  <2>3. Stale' => Stale
    <3>1. SUFFICES ASSUME Stale' PROVE Stale
      OBVIOUS
    <3>2. PICK r : r = record'
      OBVIOUS
    <3>3. Linked(r) /\ r.token \in rotated /\ (\A v \in Worker : lock = v => ~Mends(job'[v], r)) /\ r = record
      BY <1>2, <1>14, <3>1, <3>2 DEF Stale, Linked, Mends
    <3>4. ASSUME NEW v \in Worker, lock = v PROVE ~Mends(job[v], record)
      BY <1>1, <1>10, <2>2, <3>3, <3>4
    <3>5. QED
      BY <3>3, <3>4 DEF Stale
  <2>4. CASE resent' = resent
    BY <1>4, <1>14, <2>1, <2>3, <2>4, DebtSum
  <2>5. CASE resent' # resent
    <3>1. w \in Debtors
      BY <1>12, <1>14, <2>5
    <3>2. QED
      BY <1>4, <1>11, <1>14, <2>1, <2>3, <2>5, <3>1, DebtSum
  <2>6. QED
    BY <2>4, <2>5
<1>15. ASSUME NEW next, Answered(w, next) PROVE j.at = "renew.held" /\ j.read = x
  <2>1. PICK i : Becomes(w, i) /\ i.at = "renew.held" /\ i.read = x
    BY <1>7, <1>15
  <2>2. i = j
    BY <1>2, <1>10, <2>1 DEF Becomes, LInv
  <2>3. QED
    BY <2>1, <2>2
<1>16. CASE /\ x.token \in valid /\ rotated' = rotated \cup {x.token} /\ resent' = resent
            /\ \/ (\E next : Answered(w, next)) /\ troubles' = troubles
               \/ troubles' = troubles + 1
  BY <1>13, <1>15, <1>16
<1>17. CASE x.token \in valid /\ UNCHANGED <<rotated, resent, troubles>>
  BY <1>5, <1>14, <1>17
<1>18. CASE /\ UNCHANGED <<rotated, troubles>> /\ resent' = (IF x.token \in rotated THEN resent + 1 ELSE resent)
            /\ Answered(w, Empty)
  BY <1>14, <1>15, <1>18
<1>19. QED
  BY <1>1, <1>16, <1>17, <1>18 DEF RenewAsk, Trouble, upstreamVars

LEMMA CurrentDebt ==
  ASSUME HInv, RestOK, DebtInv, NEW w \in Worker, CurrentStep(w)
  PROVE  DebtInv'
<1>1. PICK t : t = job[w]
  OBVIOUS
<1>2. LInv /\ JobFine(t) /\ "at" \in DOMAIN t
  BY <1>1 DEF HInv, LInv, JobFine
<1>3. ~RenewAsk(w) => UNCHANGED <<record, rotated, resent, troubles, entering, spell>>
  BY DEF CurrentStep, CurrentFind, CurrentHold, CurrentAgain, RenewHeld, CurrentRelease, upstreamVars, sessionVars
<1>4. ~RenewAsk(w) => (OpenStill' => OpenStill)
  BY <1>3 DEF OpenStill
<1>5. CASE CurrentFind(w)
  <2>1. t.at = "current.find" /\ lock' = lock /\ ~RenewAsk(w)
    BY <1>1, <1>5 DEF CurrentFind, RenewAsk, At
  <2>2. CASE Ends(w)
    <3>1. None.at = "none" /\ Becomes(w, None)
      BY <2>2 DEF None, Ends
    <3>2. QED
      BY <1>1, <1>2, <1>3, <1>4, <2>1, <3>1, AsideDebt DEF Rewriting
  <2>3. CASE Becomes(w, [t EXCEPT !.at = "current.hold", !.read = record])
    <3>1. PICK j : j = [t EXCEPT !.at = "current.hold", !.read = record]
      OBVIOUS
    <3>2. j.at = "current.hold"
      BY <1>2, <3>1
    <3>3. QED
      BY <1>1, <1>2, <1>3, <1>4, <2>1, <2>3, <3>1, <3>2, AsideDebt DEF Rewriting
  <2>4. QED
    BY <1>1, <1>5, <2>2, <2>3 DEF CurrentFind
<1>6. CASE CurrentHold(w)
  <2>1. t.at = "current.hold" /\ ~RenewAsk(w)
    BY <1>1, <1>6 DEF CurrentHold, RenewAsk, At
  <2>2. CASE Ends(w) /\ lock' = lock
    <3>1. None.at = "none" /\ Becomes(w, None)
      BY <2>2 DEF None, Ends
    <3>2. QED
      BY <1>1, <1>2, <1>3, <1>4, <2>1, <2>2, <3>1, AsideDebt DEF Rewriting
  <2>3. CASE lock = "none" /\ lock' = w /\ Goes(w, "current.again")
    <3>1. PICK j : j = [t EXCEPT !.at = "current.again"]
      OBVIOUS
    <3>2. j.at = "current.again" /\ job'[w] = j /\ \A v \in Worker \ {w} : job'[v] = job[v]
      BY <1>1, <1>2, <2>3, <3>1 DEF Goes, Becomes, LInv
    <3>3. "none" \notin Worker
      BY RenewalAssumption
    <3>4. Debtors' \subseteq Debtors
      BY <1>3, <2>1, <2>3, <3>2, <3>3 DEF Debtors, Owes
    <3>5. Stale' => Stale
      BY <1>3, <2>1, <2>3, <3>3 DEF Stale, Linked
    <3>6. Debtors' \subseteq Debtors \cup {w}
      BY <3>4
    <3>7. QED
      BY <1>3, <1>4, <2>1, <3>4, <3>5, <3>6, DebtSum
  <2>4. QED
    BY <1>6, <2>2, <2>3 DEF CurrentHold
<1>7. CASE CurrentAgain(w)
  <2>1. t.at = "current.again" /\ lock' = lock /\ ~RenewAsk(w)
    BY <1>1, <1>7 DEF CurrentAgain, RenewAsk, At
  <2>2. CASE Goes(w, "current.release")
    BY <1>1, <1>2, <1>3, <1>4, <2>1, <2>2, AsideGoes DEF Rewriting
  <2>3. CASE Linked(record) /\ Becomes(w, [t EXCEPT !.at = "renew.ask", !.read = record])
    <3>1. PICK j : j = [t EXCEPT !.at = "renew.ask", !.read = record]
      OBVIOUS
    <3>2. {"read", "next"} \subseteq DOMAIN t
      BY <1>2, <2>1 DEF JobFine, Renewals
    <3>3. j.at = "renew.ask" /\ j.read = record
      BY <1>2, <3>1, <3>2
    <3>4. job'[w] = j /\ \A v \in Worker \ {w} : job'[v] = job[v]
      BY <1>2, <2>3, <3>1 DEF Becomes, LInv
    <3>5. CASE lock = w /\ record.token \in rotated
      <4>1. Debtors' \subseteq Debtors \cup {w}
        BY <1>3, <2>1, <3>4 DEF Debtors, Owes
      <4>2. ~Mends(t, record) /\ Mends(j, record)
        BY <2>1, <3>3 DEF Mends, Rewriting
      <4>3. Stale
        BY <1>1, <2>3, <3>5, <4>2 DEF Stale
      <4>4. ~Stale'
        <5>1. PICK r : r = record'
          OBVIOUS
        <5>2. r = record /\ Mends(job'[w], r) /\ lock' = w
          BY <1>3, <2>1, <3>4, <3>5, <4>2, <5>1
        <5>3. Stale' => ~Mends(job'[w], r)
          BY <5>1, <5>2 DEF Stale, Mends
        <5>4. QED
          BY <5>2, <5>3
      <4>5. QED
        BY <1>3, <1>4, <2>1, <4>1, <4>3, <4>4, DebtSum
    <3>6. CASE lock # w \/ record.token \notin rotated
      <4>1. Owes(w, j, lock, rotated) => Owes(w, job[w], lock, rotated)
        BY <1>1, <2>1, <3>3, <3>6 DEF Owes
      <4>2. ~Mends(job[w], record)
        BY <1>1, <2>1 DEF Mends, Rewriting
      <4>3. QED
        BY <1>2, <1>3, <1>4, <2>1, <2>3, <3>1, <4>1, <4>2, QuietDebt
    <3>7. QED
      BY <3>5, <3>6
  <2>4. QED
    BY <1>1, <1>7, <2>2, <2>3 DEF CurrentAgain
<1>8. CASE RenewHeld(w)
  <2>1. t.at = "renew.held" /\ lock' = lock /\ ~RenewAsk(w)
    BY <1>1, <1>8 DEF RenewHeld, RenewAsk, At
  <2>2. CASE lock # w
    <3>1. PICK j : j = [t EXCEPT !.at = "current.release"]
      OBVIOUS
    <3>2. j.at = "current.release" /\ Becomes(w, j)
      BY <1>1, <1>2, <1>8, <2>2, <3>1 DEF RenewHeld, Goes
    <3>3. ~Owes(w, j, lock, rotated)
      BY <3>2 DEF Owes
    <3>4. QED
      BY <1>2, <1>3, <1>4, <2>1, <2>2, <3>2, <3>3, QuietDebt
  <2>3. CASE lock = w
    <3>1. PICK old, j : /\ old = [at |-> "none", read |-> t.read]
                        /\ j = Rewrite(old, t.next, t.read, "current.release", "current.release")
      OBVIOUS
    <3>2. Becomes(w, j)
      BY <1>1, <1>8, <2>3, <3>1 DEF RenewHeld
    <3>3. j.at = "rewrite.life" /\ j.then = "current.release" /\ j.over = t.read
      BY <3>1, RewriteIs
    <3>4. Mends(t, record) => Mends(j, record)
      BY <2>1, <3>3 DEF Mends, Rewriting
    <3>5. ~Owes(w, j, lock, rotated)
      BY <3>3 DEF Owes
    <3>6. QED
      BY <1>1, <1>2, <1>3, <1>4, <2>1, <3>2, <3>4, <3>5, QuietDebt
  <2>4. QED
    BY <2>2, <2>3
<1>9. CASE CurrentRelease(w)
  <2>1. t.at = "current.release" /\ lock' = (IF lock = w THEN "none" ELSE lock) /\ ~RenewAsk(w)
    BY <1>1, <1>9 DEF CurrentRelease, RenewAsk, At
  <2>2. job'[w] = None /\ \A v \in Worker \ {w} : job'[v] = job[v]
    BY <1>2, <1>9 DEF CurrentRelease, Ends, Becomes, LInv
  <2>3. None.at = "none" /\ "none" \notin Worker
    BY RenewalAssumption DEF None
  <2>4. Debtors' \subseteq Debtors
    BY <1>3, <2>1, <2>2, <2>3 DEF Debtors, Owes
  <2>5. ~Mends(t, record)
    BY <2>1 DEF Mends, Rewriting
  <2>6. Stale' => Stale
    <3>1. SUFFICES ASSUME Stale' PROVE Stale
      OBVIOUS
    <3>2. PICK r : r = record'
      OBVIOUS
    <3>3. Linked(r) /\ r.token \in rotated /\ (\A v \in Worker : lock' = v => ~Mends(job'[v], r)) /\ r = record
      BY <1>3, <2>1, <3>1, <3>2 DEF Stale, Linked, Mends
    <3>4. ASSUME NEW v \in Worker, lock = v PROVE ~Mends(job[v], record)
      BY <1>1, <2>1, <2>2, <2>5, <3>3, <3>4
    <3>5. QED
      BY <3>3, <3>4 DEF Stale
  <2>7. Debtors' \subseteq Debtors \cup {w}
    BY <2>4
  <2>8. QED
    BY <1>3, <1>4, <2>1, <2>4, <2>6, <2>7, DebtSum
<1>10. QED
  BY <1>5, <1>6, <1>7, <1>8, <1>9, AskDebt DEF CurrentStep

LEMMA InitDebtInv == Init => DebtInv
<1> SUFFICES ASSUME Init PROVE DebtInv
  OBVIOUS
<1>1. \A w \in Worker : job[w] = None
  BY DEF Init
<1>2. None.at = "none"
  BY DEF None
<1>3. Debtors = {}
  BY <1>1, <1>2 DEF Debtors, Owes
<1>4. ~Stale
  BY DEF Stale, Init
<1>5. resent = 0 /\ troubles = 0
  BY DEF Init
<1>6. Cardinality(Debtors) = 0 /\ IsFiniteSet(Debtors)
  BY <1>3, FS_EmptySet
<1>7. QED
  BY <1>4, <1>5, <1>6 DEF DebtInv

LEMMA StepDebtInv == HInv /\ RestOK /\ DebtInv /\ [Next]_vars => DebtInv'
<1> SUFFICES ASSUME HInv, RestOK, DebtInv, [Next]_vars PROVE DebtInv'
  OBVIOUS
<1>1. LInv
  BY DEF HInv
<1>2. CASE UNCHANGED vars
  BY <1>2 DEF vars, upstreamVars, sessionVars, DebtInv, Debtors, Owes, Stale, Mends, Linked, OpenStill
<1>3. ASSUME NEW w \in Worker, Work(w) PROVE DebtInv'
  BY <1>3, RewriteDebt, CurrentDebt, KeepDebt DEF Work
<1>4. ASSUME NEW w \in Worker, Crash(w) PROVE DebtInv'
  BY <1>1, <1>4, CrashDebt
<1>5. ASSUME NEW w \in Worker, Begin(w) PROVE DebtInv'
  BY <1>5, BeginDebt
<1>6. CASE Shortens \/ StepsUp
  <2>1. UNCHANGED <<lock, rotated, job>> /\ ~OpenStill'
    BY <1>6 DEF Shortens, StepsUp, upstreamVars, OpenStill
  <2>2. Debtors' = Debtors
    BY <2>1 DEF Debtors, Owes
  <2>3. QED
    BY <2>1, <2>2 DEF DebtInv
<1>7. CASE LockLapses
  BY <1>1, <1>7, LockDebt
<1>8. QED
  BY <1>2, <1>3, <1>4, <1>5, <1>6, <1>7 DEF Next, Begin

(* While a session is open and was never short of a requirement, rotated   *)
(* tokens are sent again at most once for each holder of the lock that     *)
(* stalled or stopped and each answer lost, for any number of requests:    *)
(* without one of these never, however they meet under the lock            *)
(* (renewal.ts current, renewing.ts).                                      *)
THEOREM RotatedSeldomSent == Spec => []RotatedNeverSent
<1>1. Init => HInv /\ RestOK /\ DebtInv
  BY InitHInv, InitRestOK, InitDebtInv
<1>2. HInv /\ RestOK /\ DebtInv /\ [Next]_vars => (HInv /\ RestOK /\ DebtInv)'
  BY StepHInv, StepRestOK, StepDebtInv
<1>3. RestOK /\ DebtInv => RotatedNeverSent
  <2>1. SUFFICES ASSUME RestOK, DebtInv, OpenStill PROVE resent <= troubles
    BY DEF RotatedNeverSent, OpenStill
  <2>2. Cardinality(Debtors) \in Nat /\ resent + Cardinality(Debtors) + (IF Stale THEN 1 ELSE 0) <= troubles
    BY <2>1, FS_CardinalityType DEF DebtInv
  <2>3. resent \in Nat
    BY <2>1 DEF RestOK
  <2>4. troubles \in 0 .. load.troubles
    BY <2>1 DEF RestOK
  <2>5. QED
    BY <2>2, <2>3, <2>4
<1>4. QED
  BY <1>1, <1>2, <1>3, PTL DEF Spec
=============================================================================
