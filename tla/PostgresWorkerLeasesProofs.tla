---------------------- MODULE PostgresWorkerLeasesProofs ----------------------
(***************************************************************************)
(* The worker lease repository over PostgreSQL implements LeaseAuthority,  *)
(* for any number of callers, runs, claims and commands, with transactions *)
(* that fail, deadlock or commit long after their clients are gone.        *)
(*                                                                         *)
(* The invariant says what a transaction relies on from the await at which *)
(* it looked until it commits, and that the locks keep transactions apart, *)
(* so that nobody else takes it away.                                      *)
(***************************************************************************)
EXTENDS PostgresWorkerLeases, TLAPS

WritePhases == {"write", "sent"}
ClaimPhases == {"race", "load", "reload", "replay", "select", "skip_locked", "probe",
                "wait", "recheck", "store", "receipt", "no_work"}
ShortPhases == {"idle", "clock", "race", "load", "reload", "replay", "evaluate",
                "arbitrate", "lock"}

\* Which requests get where, and what they have in hand there.
Shaped(x) ==
  /\ x.pc # "idle" => x.req \in Requests
  /\ x.pc \in ClaimPhases => x.req.op = "claim"
  /\ x.pc = "clock" => x.req.op \in {"claim", "get_authority"}
  /\ x.pc = "evaluate" => x.req.op = "get_authority"
  /\ x.pc = "arbitrate" => IsCommit(x.req)
  /\ x.pc = "lock" => x.req.op \in {"renew", "release"} \/ IsCommit(x.req)
  /\ x.pc \in WritePhases => x.req.op # "get_authority"
  /\ (x.pc # "idle" /\ x.req.op = "commit_with_lease") => x.req.proof.run = x.req.run
  /\ x.pc \in ShortPhases => x.held = {}
  /\ x.pc \notin {"store", "receipt"} \cup WritePhases => x.lease = None
  /\ x.pc \in {"store", "receipt"} => x.lease # None
  /\ (x.pc \in WritePhases /\ x.req.op \in {"renew", "release"}) => x.lease # None
  /\ x.pc \in {"wait", "recheck", "store", "receipt"} => x.run \in Runs

\* x has locked the run it is about.
HasRow(x) ==
  \/ x.pc \in {"recheck", "store", "receipt"}
  \/ x.pc \in WritePhases /\ (x.lease # None \/ IsCommit(x.req))

\* The row x will leave is the one a claim, a renewal or a release makes of the
\* lease that is there, by some time the clock has shown.
ClaimStands(x, t, run, lease) ==
  /\ run.status = "queued"
  /\ x.lease # None =>
       /\ MayBeClaimed(lease, t)
       /\ \E at \in 0 .. t, token \in Tokens : x.lease = NextLease(lease, x.req, token, at)

MutationStands(x, t, run, lease) ==
  /\ x.lease # None /\ lease # None /\ RowAllowed(x.lease)
  /\ x.run = x.req.proof.run
  /\ ProofMatches(x.req.proof, lease) /\ lease.released = None
  /\ \E at \in 0 .. t :
       \/ /\ x.req.op = "renew" /\ run.status \in Workable
          /\ x.lease = RenewedLease(lease, x.req.duration, at)
       \/ x.req.op = "release" /\ x.lease = ReleasedLease(lease, at)

CommitStands(x, run, lease) ==
  /\ x.lease = None /\ x.run = x.req.run
  /\ x.req.expected = run.version /\ x.req.status \in Follows[run.status]
  /\ x.req.op = "commit_with_lease" =>
       /\ lease # None /\ ProofMatches(x.req.proof, lease) /\ lease.released = None
       /\ run.status \in Workable

RowStands(x, t, run, lease) ==
  /\ x.run \in Runs /\ x.run \in x.held
  /\ x.req.op = "claim" => ClaimStands(x, t, run, lease)
  /\ x.req.op \in {"renew", "release"} => MutationStands(x, t, run, lease)
  /\ IsCommit(x.req) => CommitStands(x, run, lease)

\* Every run that waits for a worker, those in S apart, was given to one before.
GivenBut(S, rs, ls) == \A r \in Runs \ S : rs[r].status = "queued" => ls[r] # None

\* A commit was decided on this version of its run, or is late.
DecidedOn(req, run) ==
  /\ req.expected <= run.version
  /\ req.expected = run.version => req.status \in Follows[run.status]

\* What x relies on: t is the time, rs, ls, cs and ds the tables.
Stands(x, t, rs, ls, cs, ds) ==
  /\ HasRow(x) => RowStands(x, t, rs[x.run], ls[x.run])
  /\ x.pc = "wait" => GivenBut(x.seen \cup {x.run}, rs, ls)
  /\ (x.pc = "no_work" \/ (x.pc \in WritePhases /\ x.req.op = "claim" /\ x.lease = None))
       => GivenBut({}, rs, ls)
  /\ x.pc \in {"race", "reload", "replay"} => cs[x.req.claim] # None
  /\ (x.pc \in WritePhases /\ x.req.op = "claim") => cs[x.req.claim] = None
  /\ (x.pc \in {"lock"} \cup WritePhases /\ IsCommit(x.req)) => ds[x.req.command] = None
  /\ (x.pc # "idle" /\ IsCommit(x.req)) => DecidedOn(x.req, rs[x.req.run])

\* What the locks keep apart.
Apart(x, y) ==
  /\ x.held \cap y.held = {}
  /\ \A k \in Claims : ~(HoldsReceiptKey(x, k) /\ HoldsReceiptKey(y, k))
  /\ \A q \in Commands : ~(HoldsCommandKey(x, q) /\ HoldsCommandKey(y, q))

Rely(x) == Shaped(x) /\ Stands(x, now, runs, leases, receipts, done)

TransactionsOK ==
  /\ \A c \in Callers : Rely(call[c])
  /\ \A o \in orphans : o.pc = "sent" /\ Rely(o)
  /\ \A c, d \in Callers : c # d => Apart(call[c], call[d])
  /\ \A c \in Callers : \A o \in orphans : Apart(call[c], o)
  /\ \A o, p \in orphans : o # p => Apart(o, p)

\* A command that was recorded is one its run has left behind.
RecordsOK ==
  \A q \in Commands : done[q] # None =>
    done[q].version \in Nat \ {0} /\ done[q].version <= runs[done[q].run].version

\* The inductive invariant.
LeaseInv ==
  /\ LeaseTypeOK
  /\ ClaimsAreHonest
  /\ RecordsOK
  /\ TransactionsOK
  /\ ClaimRepliesAreStored
-----------------------------------------------------------------------------
(***************************************************************************)
(* Facts about the records.                                                *)
(***************************************************************************)
ClaimRequest == [op : {"claim"}, claim : Claims, worker : Workers, duration : Durations]
RenewRequest == [op : {"renew"}, proof : Proof, expected : Nat, duration : Durations]
ReleaseRequest == [op : {"release"}, proof : Proof, expected : Nat]
AuthorityRequest == [op : {"get_authority"}, proof : Proof]

\* What a request is, by its operation.
LEMMA RequestFacts ==
  ASSUME NEW req \in Requests
  PROVE  /\ req.op \in {"claim", "renew", "release", "get_authority",
                        "commit_with_lease", "commit"}
         /\ req.op = "claim" => req \in ClaimRequest
         /\ req.op = "renew" => req \in RenewRequest
         /\ req.op = "release" => req \in ReleaseRequest
         /\ req.op = "get_authority" => req \in AuthorityRequest
         /\ IsCommit(req) => /\ req.command \in Commands /\ req.run \in Runs
                             /\ req.expected \in Nat /\ req.status \in RunStatuses
         /\ req.op = "commit_with_lease" => req.proof \in Proof
<1>1. ClaimRequests \cup Mistakes \subseteq ClaimRequest
  BY CallsAssumption DEF ClaimRequest
<1>2. \/ req \in ClaimRequest \/ req \in RenewRequest \/ req \in ReleaseRequest
      \/ req \in AuthorityRequest \/ req \in CommitRequest
  BY <1>1 DEF Requests, RenewRequest, ReleaseRequest, AuthorityRequest
<1> QED
  BY <1>2 DEF ClaimRequest, RenewRequest, ReleaseRequest, AuthorityRequest,
     CommitRequest, IsCommit

\* The fields of a call.
LEMMA CallFacts ==
  ASSUME NEW x \in Calls
  PROVE  /\ x.held \subseteq Runs /\ x.seen \subseteq Runs /\ x.at \in Nat
         /\ x.lease \in Lease \cup {None}
         /\ x.run \in Runs \cup {None}
         /\ x.req \in Requests \cup {None}
BY DEF Calls

\* The lease a claim, a renewal or a release leaves is one.
LEMMA NextLeaseFacts ==
  ASSUME NEW old \in Lease \cup {None}, NEW req \in ClaimRequest, NEW token \in Tokens,
         NEW at \in Nat
  PROVE  LET new == NextLease(old, req, token, at)
         IN /\ new \in Lease /\ RowAllowed(new)
            /\ new.worker = req.worker /\ new.claim = req.claim /\ new.token = token
            /\ new.attempt = (IF old = None THEN 1 ELSE old.attempt + 1)
            /\ new.version = (IF old = None THEN 1 ELSE old.version + 1)
            /\ new.acquired = at /\ new.expires = at + req.duration /\ new.released = None
<1>1. req.duration \in Nat \ {0} /\ req.claim \in Claims /\ req.worker \in Workers
  BY LeasesAssumption DEF ClaimRequest
<1>2. old # None => old.attempt \in Nat /\ old.version \in Nat
  BY DEF Lease
<1> QED BY <1>1, <1>2 DEF NextLease, Lease, RowAllowed

\* A renewal moves the version, the heartbeat and the end of a lease, and nothing else.
LEMMA RenewedLeaseFacts ==
  ASSUME NEW old \in Lease, NEW duration \in Durations, NEW at \in Nat
  PROVE  LET new == RenewedLease(old, duration, at)
         IN /\ new \in Lease
            /\ new.worker = old.worker /\ new.claim = old.claim /\ new.token = old.token
            /\ new.attempt = old.attempt /\ new.version = old.version + 1
            /\ new.acquired = old.acquired
            /\ new.expires = at + duration /\ new.released = old.released
<1> DEFINE new == RenewedLease(old, duration, at)
<1>1. old.version + 1 \in Nat /\ at + duration \in Nat
  BY LeasesAssumption DEF Lease
<1>2. new = [old EXCEPT !.version = old.version + 1, !.heartbeat = at,
                        !.expires = at + duration]
  BY DEF RenewedLease
<1> HIDE DEF new
<1>3. new \in Lease
  BY <1>1, <1>2 DEF Lease
<1>4. /\ new.worker = old.worker /\ new.claim = old.claim /\ new.token = old.token
      /\ new.attempt = old.attempt /\ new.version = old.version + 1
      /\ new.acquired = old.acquired
      /\ new.expires = at + duration /\ new.released = old.released
  BY <1>2 DEF Lease
<1> QED BY <1>3, <1>4 DEF new

\* A release marks a lease as released, and keeps everything else but the version.
LEMMA ReleasedLeaseFacts ==
  ASSUME NEW old \in Lease, NEW at \in Nat
  PROVE  LET new == ReleasedLease(old, at)
         IN /\ new \in Lease
            /\ new.worker = old.worker /\ new.claim = old.claim /\ new.token = old.token
            /\ new.attempt = old.attempt /\ new.version = old.version + 1
            /\ new.acquired = old.acquired
            /\ new.expires = old.expires /\ new.released = at
<1> DEFINE new == ReleasedLease(old, at)
<1>1. old.version + 1 \in Nat /\ at \in Nat \cup {None}
  BY DEF Lease
<1>2. new = [old EXCEPT !.version = old.version + 1, !.released = at]
  BY DEF ReleasedLease
<1> HIDE DEF new
<1>3. new \in Lease
  BY <1>1, <1>2 DEF Lease
<1>4. /\ new.worker = old.worker /\ new.claim = old.claim /\ new.token = old.token
      /\ new.attempt = old.attempt /\ new.version = old.version + 1
      /\ new.acquired = old.acquired
      /\ new.expires = old.expires /\ new.released = at
  BY <1>2 DEF Lease
<1> QED BY <1>3, <1>4 DEF new

\* A receipt of either outcome is one.
LEMMA ReceiptFacts ==
  ASSUME NEW req \in ClaimRequest
  PROVE  /\ NoWorkReceipt(req) \in Receipt /\ NoWorkReceipt(req).outcome = "no_work"
         /\ \A run \in Runs, lease \in Lease :
              /\ ClaimedReceipt(req, run, lease) \in Receipt
              /\ ClaimedReceipt(req, run, lease).outcome = "claimed"
              /\ ClaimedReceipt(req, run, lease).run = run
              /\ ClaimedReceipt(req, run, lease).worker = req.worker
              /\ ClaimedReceipt(req, run, lease).attempt = lease.attempt
              /\ ClaimedReceipt(req, run, lease).token = lease.token
              /\ ClaimedReceipt(req, run, lease).expires = lease.expires
<1>1. NoWorkReceipt(req) \in Receipt /\ NoWorkReceipt(req).outcome = "no_work"
  BY DEF NoWorkReceipt, Receipt, ClaimRequest
<1>2. ASSUME NEW run \in Runs, NEW lease \in Lease
      PROVE  /\ ClaimedReceipt(req, run, lease) \in Receipt
             /\ ClaimedReceipt(req, run, lease).outcome = "claimed"
             /\ ClaimedReceipt(req, run, lease).run = run
             /\ ClaimedReceipt(req, run, lease).worker = req.worker
             /\ ClaimedReceipt(req, run, lease).attempt = lease.attempt
             /\ ClaimedReceipt(req, run, lease).token = lease.token
             /\ ClaimedReceipt(req, run, lease).expires = lease.expires
  BY DEF ClaimedReceipt, Receipt, ClaimRequest, Lease
<1> QED BY <1>1, <1>2

\* A claimed receipt names a run and makes a proof.
LEMMA ClaimedFacts ==
  ASSUME NEW receipt \in Receipt, receipt.outcome = "claimed"
  PROVE  /\ receipt.run \in Runs /\ receipt.worker \in Workers /\ receipt.token \in Tokens
         /\ receipt.attempt \in Nat /\ receipt.version \in Nat /\ receipt.expires \in Nat
         /\ \A k \in Claims : ProofOf(k, receipt) \in Proof
BY DEF Receipt, ProofOf, Proof
-----------------------------------------------------------------------------
(***************************************************************************)
(* Steps of one call.                                                      *)
(***************************************************************************)
\* What LeaseTypeOK says of rows and locks is part of what a transaction relies on.
RowClause(x) ==
  /\ x.pc \in {"recheck", "store", "receipt"} => x.run \in x.held
  /\ x.pc \in WritePhases /\ (x.lease # None \/ IsCommit(x.req))
       => x.run \in x.held /\ (x.lease # None => RowAllowed(x.lease))

\* A transaction that relies on its row holds it, and writes what the table admits.
LEMMA RowsAreAllowed ==
  ASSUME NEW x \in Calls, NEW t \in Nat, NEW rs, NEW ls \in [Runs -> Lease \cup {None}],
         NEW cs, NEW ds, Shaped(x), Stands(x, t, rs, ls, cs, ds)
  PROVE  RowClause(x)
<1> SUFFICES ASSUME HasRow(x)
             PROVE  x.run \in x.held /\ (x.pc \in WritePhases /\ x.lease # None
                                           => RowAllowed(x.lease))
  BY DEF RowClause, HasRow
<1>1. RowStands(x, t, rs[x.run], ls[x.run])
  BY DEF Stands
<1>2. x.run \in Runs /\ x.run \in x.held
  BY <1>1 DEF RowStands
<1>3. ls[x.run] \in Lease \cup {None}
  BY <1>2
<1>4. x.req \in Requests
  BY DEF Shaped, HasRow, WritePhases
<1>5. ASSUME x.pc \in WritePhases, x.lease # None
      PROVE  RowAllowed(x.lease)
  <2>1. CASE x.req.op = "claim"
    <3>1. PICK at \in 0 .. t, token \in Tokens :
            x.lease = NextLease(ls[x.run], x.req, token, at)
      BY <1>1, <1>5, <2>1 DEF RowStands, ClaimStands
    <3>2. x.req \in ClaimRequest /\ at \in Nat
      BY <1>4, <2>1, RequestFacts
    <3> QED BY <1>3, <3>1, <3>2, NextLeaseFacts
  <2>2. CASE x.req.op \in {"renew", "release"}
    BY <1>1, <2>2 DEF RowStands, MutationStands
  <2>3. CASE IsCommit(x.req)
    BY <1>1, <1>5, <2>3 DEF RowStands, CommitStands
  <2> QED BY <1>4, <1>5, <2>1, <2>2, <2>3, RequestFacts DEF Shaped, IsCommit
<1> QED BY <1>2, <1>5

\* What ClaimRepliesAreStored says of one reply.
ReplyStored(reply, cs) ==
  (reply # None /\ reply.claim # None) =>
    LET stored == cs[reply.claim]
    IN /\ reply.code # "data_corruption"
       /\ reply.code = "no_work" => stored # None /\ stored.outcome = "no_work"
       /\ reply.code = "claimed" =>
            /\ stored # None /\ stored.outcome = "claimed"
            /\ reply.grant.run = stored.run /\ reply.grant.attempt = stored.attempt

\* Being kept apart is mutual.
LEMMA ApartSymmetric == \A x, y : Apart(x, y) => Apart(y, x)
BY DEF Apart

\* The parts of the invariant, seen from one caller.
LEMMA InvFacts ==
  ASSUME LeaseInv, NEW c \in Callers
  PROVE  /\ now \in Nat /\ runs \in [Runs -> Run] /\ leases \in [Runs -> Lease \cup {None}]
         /\ receipts \in [Claims -> Receipt \cup {None}]
         /\ done \in [Commands -> CommandReceipt \cup {None}]
         /\ call \in [Callers -> Calls] /\ orphans \subseteq Calls
         /\ call[c] \in Calls /\ Shaped(call[c])
         /\ Stands(call[c], now, runs, leases, receipts, done)
         /\ \A z \in Others(c) : Apart(call[c], z)
         /\ ReplyStored(call[c].reply, receipts)
BY DEF LeaseInv, LeaseTypeOK, TransactionsOK, Rely, Others, ClaimRepliesAreStored, ReplyStored

\* A step that leaves the store alone and makes y of the call of c.
LEMMA CallStep ==
  ASSUME LeaseInv, NEW c \in Callers, NEW y \in Calls,
         now' = now, UNCHANGED store, orphans' = orphans,
         call' = [call EXCEPT ![c] = y],
         Shaped(y), Stands(y, now, runs, leases, receipts, done),
         \A z \in Others(c) : Apart(y, z),
         ReplyStored(y.reply, receipts)
  PROVE  LeaseInv'
<1>1. runs' = runs /\ leases' = leases /\ receipts' = receipts /\ done' = done
  BY DEF store
<1>2. /\ now \in Nat /\ runs \in [Runs -> Run] /\ leases \in [Runs -> Lease \cup {None}]
      /\ call \in [Callers -> Calls] /\ orphans \subseteq Calls
  BY InvFacts
<1>3. call'[c] = y /\ (\A d \in Callers \ {c} : call'[d] = call[d])
      /\ call' \in [Callers -> Calls]
  BY <1>2
<1>4. LeaseTypeOK'
  <2>1. RowClause(y)
    BY <1>2, RowsAreAllowed
  <2>2. \A x \in {call[d] : d \in Callers} \cup orphans : RowClause(x)
    BY DEF LeaseInv, LeaseTypeOK, RowClause, WritePhases
  <2>3. \A x \in {call'[d] : d \in Callers} \cup orphans' : RowClause(x)
    BY <1>3, <2>1, <2>2
  <2>4. \A x \in {call'[d] : d \in Callers} \cup orphans' :
          /\ x.pc \in {"recheck", "store", "receipt"} => x.run \in x.held
          /\ x.pc \in {"write", "sent"} /\ (x.lease # None \/ IsCommit(x.req))
               => x.run \in x.held /\ (x.lease # None => RowAllowed(x.lease))
    BY <2>3 DEF RowClause, WritePhases
  <2> QED BY <1>1, <1>2, <1>3, <2>4 DEF LeaseTypeOK, LeaseInv
<1>5. ClaimsAreHonest' /\ RecordsOK'
  BY <1>1 DEF LeaseInv, ClaimsAreHonest, RecordsOK, Granted
<1>6. \A d \in Callers : Shaped(call'[d]) /\ Stands(call'[d], now, runs, leases, receipts, done)
  BY <1>3, InvFacts
<1>7. \A d, e \in Callers : d # e => Apart(call'[d], call'[e])
  <2>1. \A d \in Callers : d # c => Apart(y, call[d])
    BY DEF Others
  <2> QED BY <1>3, <2>1, ApartSymmetric DEF LeaseInv, TransactionsOK
<1>8. \A d \in Callers : \A o \in orphans : Apart(call'[d], o)
  BY <1>3 DEF LeaseInv, TransactionsOK, Others
<1>9. TransactionsOK'
  <2>1. \A o \in orphans' : o.pc = "sent" /\ Rely(o)'
    BY <1>1 DEF LeaseInv, TransactionsOK, Rely
  <2> QED BY <1>1, <1>6, <1>7, <1>8, <2>1 DEF LeaseInv, TransactionsOK, Rely
<1>10. ClaimRepliesAreStored'
  <2>1. \A d \in Callers : ReplyStored(call'[d].reply, receipts)
    BY <1>3, InvFacts
  <2> QED BY <1>1, <2>1 DEF ClaimRepliesAreStored, ReplyStored
<1> QED BY <1>4, <1>5, <1>9, <1>10 DEF LeaseInv

\* Keys are held by the transactions that have inserted them.
LEMMA KeysByPhase ==
  ASSUME NEW x
  PROVE  /\ x.pc \notin WritePhases => \A k : ~HoldsReceiptKey(x, k)
         /\ x.pc \notin {"lock"} \cup WritePhases => \A q : ~HoldsCommandKey(x, q)
BY DEF HoldsReceiptKey, HoldsCommandKey, WritePhases

\* A call that neither gains a row nor a key stays apart from all others.
LEMMA ApartShrinks ==
  ASSUME NEW x, NEW y, NEW z, Apart(x, z), y.held \subseteq x.held,
         \A k \in Claims : HoldsReceiptKey(y, k) => HoldsReceiptKey(x, k),
         \A q \in Commands : HoldsCommandKey(y, q) => HoldsCommandKey(x, q)
  PROVE  Apart(y, z)
BY DEF Apart

GrantRecord == [run : Runs, attempt : Nat, version : Nat, expires : Nat]

\* A call is answered, and its transaction is over.
LEMMA ReplyStep ==
  ASSUME LeaseInv, NEW c \in Callers, call[c].pc # "idle",
         now' = now, UNCHANGED store, orphans' = orphans,
         NEW code \in ReplyCodes, NEW may_start \in BOOLEAN, NEW grant \in {None} \cup GrantRecord,
         Reply(c, code, may_start, grant),
         call[c].req.op = "claim" =>
           ReplyStored(Answer(call[c].req, code, may_start, grant), receipts)
  PROVE  LeaseInv'
<1> DEFINE answer == Answer(call[c].req, code, may_start, grant)
           reply == IF call[c].req.op \in Remembered THEN answer ELSE None
           y == [AtRest EXCEPT !.reply = reply]
<1>1. call[c].req \in Requests
  BY InvFacts DEF Shaped
<1>2. /\ answer \in [code : ReplyCodes, may_start : BOOLEAN, claim : Claims \cup {None},
                     grant : {None} \cup GrantRecord]
      /\ call[c].req.op # "claim" => answer.claim = None
  BY <1>1, RequestFacts DEF Answer, ClaimRequest
<1>3. ReplyStored(reply, receipts)
  BY <1>2 DEF ReplyStored
<1>4. y \in Calls
  <2> HIDE DEF answer
  <2> QED BY <1>2 DEF AtRest, Calls, GrantRecord
<1>5. y.pc = "idle" /\ y.held = {} /\ y.lease = None /\ y.reply = reply
  BY DEF AtRest
<1>6. call' = [call EXCEPT ![c] = y]
  BY DEF Reply
<1> HIDE DEF y, reply
<1>7. Shaped(y)
  BY <1>5 DEF Shaped, ShortPhases, ClaimPhases, WritePhases
<1>8. Stands(y, now, runs, leases, receipts, done)
  BY <1>5 DEF Stands, HasRow, WritePhases
<1>9. \A z : Apart(y, z)
  BY <1>5, KeysByPhase DEF Apart, WritePhases
<1> QED BY <1>3, <1>4, <1>5, <1>6, <1>7, <1>8, <1>9, CallStep

\* A call is refused: the code says nothing of what is stored.
LEMMA RefuseStep ==
  ASSUME LeaseInv, NEW c \in Callers, call[c].pc # "idle",
         now' = now, UNCHANGED store, orphans' = orphans,
         NEW code \in ReplyCodes, Refuse(c, code),
         call[c].req.op = "claim" => code \notin {"data_corruption", "no_work", "claimed"}
  PROVE  LeaseInv'
<1>1. ASSUME call[c].req.op = "claim"
      PROVE  ReplyStored(Answer(call[c].req, code, FALSE, None), receipts)
  BY <1>1 DEF ReplyStored, Answer
<1> QED BY <1>1, ReplyStep DEF Refuse

\* A transaction that is rolled back for a lost race has nothing in hand.
LEMMA LoseRaceStep ==
  ASSUME LeaseInv, NEW c \in Callers, call[c].pc # "idle", call[c].req.op = "claim",
         receipts[call[c].req.claim] # None,
         now' = now, UNCHANGED store, orphans' = orphans, LoseRace(c)
  PROVE  LeaseInv'
<1> DEFINE y == [AtRest EXCEPT !.pc = "race", !.req = call[c].req]
<1>1. call[c].req \in Requests
  BY InvFacts DEF Shaped
<1>2. y \in Calls
  BY <1>1 DEF AtRest, Calls
<1>3. /\ y.pc = "race" /\ y.req = call[c].req /\ y.held = {} /\ y.lease = None
      /\ y.reply = None
  BY DEF AtRest
<1>4. call' = [call EXCEPT ![c] = y]
  BY DEF LoseRace
<1> HIDE DEF y
<1>5. Shaped(y)
  BY <1>1, <1>3 DEF Shaped, ShortPhases, ClaimPhases, WritePhases, IsCommit
<1>6. Stands(y, now, runs, leases, receipts, done)
  BY <1>3 DEF Stands, HasRow, WritePhases, IsCommit
<1>7. \A z : Apart(y, z)
  BY <1>3, KeysByPhase DEF Apart, WritePhases
<1>8. ReplyStored(y.reply, receipts)
  BY <1>3 DEF ReplyStored
<1> QED BY <1>2, <1>4, <1>5, <1>6, <1>7, <1>8, CallStep

\* What a step of a call in flight makes of it: y, with no more in hand than before.
LEMMA MoveStep ==
  ASSUME LeaseInv, NEW c \in Callers, NEW y \in Calls,
         now' = now, UNCHANGED store, orphans' = orphans,
         call' = [call EXCEPT ![c] = y],
         Shaped(y), Stands(y, now, runs, leases, receipts, done),
         y.held \subseteq call[c].held, y.pc \notin {"lock"} \cup WritePhases,
         y.reply = call[c].reply
  PROVE  LeaseInv'
<1>1. \A z \in Others(c) : Apart(y, z)
  BY InvFacts, ApartShrinks, KeysByPhase
<1>2. ReplyStored(y.reply, receipts)
  BY InvFacts
<1> QED BY <1>1, <1>2, CallStep

\* A new phase for a call.
LEMMA GotoFacts ==
  ASSUME LeaseInv, NEW c \in Callers, NEW pc, Goto(c, pc),
         pc \in {"select", "replay", "no_work", "receipt", "write", "sent", "lock"}
  PROVE  LET y == [call[c] EXCEPT !.pc = pc]
         IN /\ call' = [call EXCEPT ![c] = y] /\ y \in Calls
            /\ y.pc = pc /\ y.req = call[c].req /\ y.run = call[c].run
            /\ y.held = call[c].held /\ y.seen = call[c].seen
            /\ y.lease = call[c].lease /\ y.reply = call[c].reply
<1>1. call \in [Callers -> Calls] /\ call[c] \in Calls
  BY InvFacts
<1> QED BY <1>1 DEF Goto, Calls
-----------------------------------------------------------------------------
(***************************************************************************)
(* Requests.                                                               *)
(***************************************************************************)
\* What a caller may know is a proof.
LEMMA KnownProofsAreProofs == LeaseInv => KnownProofs \subseteq Proof
BY ClaimedFacts DEF LeaseInv, LeaseTypeOK, KnownProofs

\* A commit that carries what was decided on the run as it is, or that repeats one.
LEMMA CommitRequestFacts ==
  ASSUME LeaseInv, NEW req \in CommitRequests
  PROVE  /\ req \in CommitRequest /\ req.op = "commit"
         /\ DecidedOn(req, runs[req.run])
<1>1. runs \in [Runs -> Run] /\ done \in [Commands -> CommandReceipt \cup {None}]
  BY DEF LeaseInv, LeaseTypeOK
<1>2. \A r \in Runs : runs[r].version \in Nat
  BY <1>1 DEF Run
<1>3. CASE req \in FreshCommits /\ req.status \in Follows[runs[req.run].status]
  <2>1. PICK q \in Commands, r \in Runs, s \in RunStatuses :
          req = [op |-> "commit", command |-> q, run |-> r, expected |-> runs[r].version,
                 status |-> s]
    BY <1>3 DEF FreshCommits
  <2>2. req.op = "commit" /\ req.run = r /\ req.expected = runs[r].version /\ req.status = s
    BY <2>1
  <2>3. req \in CommitRequest
    BY <1>2, <2>1 DEF CommitRequest
  <2> QED BY <1>2, <1>3, <2>2, <2>3 DEF DecidedOn
<1>4. CASE req \in Repeats
  <2>1. PICK q \in Commands :
          /\ done[q] # None
          /\ req = [op |-> "commit", command |-> q, run |-> done[q].run,
                    expected |-> done[q].version - 1, status |-> done[q].status]
    BY <1>4 DEF Repeats
  <2>2. done[q].run \in Runs /\ done[q].status \in RunStatuses
    BY <1>1, <2>1 DEF CommandReceipt
  <2>3. done[q].version \in Nat \ {0} /\ done[q].version <= runs[done[q].run].version
    BY <2>1 DEF LeaseInv, RecordsOK
  <2>4. req.op = "commit" /\ req.run = done[q].run /\ req.expected = done[q].version - 1
    BY <2>1
  <2>5. req \in CommitRequest
    BY <2>1, <2>2, <2>3 DEF CommitRequest
  <2>6. req.expected < runs[req.run].version
    BY <1>2, <2>2, <2>3, <2>4
  <2> QED BY <1>2, <2>2, <2>3, <2>4, <2>5, <2>6 DEF DecidedOn
<1> QED BY <1>3, <1>4 DEF CommitRequests

\* Every request sent is one, decided on the run as it is or was.
LEMMA SendableFacts ==
  ASSUME LeaseInv, NEW req \in Sendable
  PROVE  /\ req \in Requests
         /\ IsCommit(req) => DecidedOn(req, runs[req.run])
         /\ req.op = "commit_with_lease" => req.proof.run = req.run
<1>1. CASE req \in ClaimRequests \cup {m \in Mistakes : receipts[m.claim] # None}
  <2>1. req \in Requests /\ req.op = "claim"
    BY <1>1, CallsAssumption DEF Requests
  <2> QED BY <2>1 DEF IsCommit
<1>2. CASE req \in RenewRequests
  BY <1>2, KnownProofsAreProofs, CallsAssumption DEF RenewRequests, Requests, IsCommit
<1>3. CASE req \in ReleaseRequests
  BY <1>3, KnownProofsAreProofs, CallsAssumption DEF ReleaseRequests, Requests, IsCommit
<1>4. CASE req \in AuthorityRequests
  BY <1>4, KnownProofsAreProofs DEF AuthorityRequests, Requests, IsCommit
<1>5. CASE req \in CommitRequests
  <2>1. req \in CommitRequest /\ req.op = "commit" /\ DecidedOn(req, runs[req.run])
    BY <1>5, CommitRequestFacts
  <2> QED BY <2>1 DEF Requests
<1>6. CASE req \in GuardedRequests /\ req.proof.run = req.run
  <2>1. PICK bare \in CommitRequests, p \in KnownProofs : req = Guarded(bare, p)
    BY <1>6 DEF GuardedRequests
  <2>2. bare \in CommitRequest /\ bare.op = "commit" /\ DecidedOn(bare, runs[bare.run])
    BY <2>1, CommitRequestFacts
  <2>3. p \in Proof
    BY KnownProofsAreProofs
  <2>4. /\ bare.command \in Commands /\ bare.run \in Runs /\ bare.expected \in Nat
        /\ bare.status \in RunStatuses
    BY <2>2 DEF CommitRequest
  <2>5. /\ req.op = "commit_with_lease" /\ req.run = bare.run
        /\ req.expected = bare.expected /\ req.status = bare.status
    BY <2>1 DEF Guarded
  <2>6. req \in CommitRequest
    BY <2>1, <2>3, <2>4 DEF Guarded, CommitRequest
  <2>7. DecidedOn(req, runs[req.run])
    BY <2>2, <2>5 DEF DecidedOn
  <2> QED BY <1>6, <2>6, <2>7 DEF Requests
<1> QED BY <1>1, <1>2, <1>3, <1>4, <1>5, <1>6 DEF Sendable

\* A request is sent: it has nothing in hand yet.
LEMMA RequestStep ==
  ASSUME LeaseInv, NEW c \in Callers, Request(c)
  PROVE  LeaseInv'
<1>1. PICK req \in Sendable :
        call' = [call EXCEPT ![c] = [AtRest EXCEPT !.pc = FirstStep(req), !.req = req]]
  BY DEF Request
<1>2. /\ req \in Requests
      /\ IsCommit(req) => DecidedOn(req, runs[req.run])
      /\ req.op = "commit_with_lease" => req.proof.run = req.run
  BY SendableFacts
<1> DEFINE y == [AtRest EXCEPT !.pc = FirstStep(req), !.req = req]
<1>3. \/ FirstStep(req) = "clock" /\ req.op \in {"claim", "get_authority"}
      \/ FirstStep(req) = "lock" /\ req.op \in {"renew", "release"}
      \/ FirstStep(req) = "arbitrate" /\ IsCommit(req)
  <2>1. \/ req.op = "claim" \/ req.op = "get_authority" \/ req.op \in {"renew", "release"}
        \/ req.op \in {"commit_with_lease", "commit"}
    BY <1>2, RequestFacts
  <2>2. CASE req.op = "claim"
    BY <2>2 DEF FirstStep, IsCommit
  <2>3. CASE req.op = "get_authority"
    BY <2>3 DEF FirstStep, IsCommit
  <2>4. CASE req.op \in {"renew", "release"}
    BY <2>4 DEF FirstStep, IsCommit
  <2>5. CASE req.op \in {"commit_with_lease", "commit"}
    BY <2>5 DEF FirstStep, IsCommit
  <2> QED BY <2>1, <2>2, <2>3, <2>4, <2>5
<1>4. /\ y.pc = FirstStep(req) /\ y.req = req /\ y.held = {} /\ y.lease = None
      /\ y.reply = None
  BY DEF AtRest
<1>5. y \in Calls
  <2>1. FirstStep(req) \in {"clock", "lock", "arbitrate"}
    BY <1>3
  <2> QED BY <1>2, <2>1 DEF AtRest, Calls
<1>6. call' = [call EXCEPT ![c] = y] /\ now' = now /\ UNCHANGED store /\ orphans' = orphans
  BY <1>1 DEF Request
<1> HIDE DEF y
<1>7. Shaped(y)
  BY <1>2, <1>3, <1>4 DEF Shaped, ShortPhases, ClaimPhases, WritePhases
<1>8. y.pc = "lock" => ~IsCommit(y.req)
  BY <1>3, <1>4 DEF IsCommit
<1>9. Stands(y, now, runs, leases, receipts, done)
  BY <1>2, <1>3, <1>4, <1>8 DEF Stands, HasRow, WritePhases
<1>10. \A z : Apart(y, z)
  BY <1>3, <1>4, <1>8 DEF Apart, HoldsReceiptKey, HoldsCommandKey
<1>11. ReplyStored(y.reply, receipts)
  BY <1>4 DEF ReplyStored
<1> QED BY <1>5, <1>6, <1>7, <1>9, <1>10, <1>11, CallStep
-----------------------------------------------------------------------------
(***************************************************************************)
(* claim.                                                                  *)
(***************************************************************************)
\* What AtRest calls and answers cannot be: a claim in flight.
LEMMA ClaimCallFacts ==
  ASSUME LeaseInv, NEW c \in Callers, call[c].pc \in ClaimPhases
  PROVE  /\ call[c].pc # "idle" /\ call[c].req \in Requests /\ call[c].req.op = "claim"
         /\ call[c].req \in ClaimRequest /\ call[c].req.claim \in Claims
         /\ ~IsCommit(call[c].req)
<1>1. call[c].pc # "idle" /\ call[c].req \in Requests /\ call[c].req.op = "claim"
  BY InvFacts DEF Shaped, ClaimPhases
<1>2. call[c].req \in ClaimRequest
  BY <1>1, RequestFacts
<1> QED BY <1>1, <1>2 DEF ClaimRequest, IsCommit

\* claim and get_authority read the clock before anything else.
LEMMA ReadClockStep ==
  ASSUME LeaseInv, NEW c \in Callers, ReadClock(c)
  PROVE  LeaseInv'
<1> DEFINE x == call[c]
<1>1. /\ x.pc \in {"clock", "race"} /\ now' = now /\ UNCHANGED store /\ orphans' = orphans
      /\ x \in Calls /\ Shaped(x) /\ Stands(x, now, runs, leases, receipts, done)
      /\ call \in [Callers -> Calls] /\ now \in Nat
  BY InvFacts DEF ReadClock
<1>2. x.req.op \in {"claim", "get_authority"} /\ (x.pc = "race" => x.req.op = "claim")
      /\ x.held = {} /\ x.lease = None /\ x.req \in Requests
  BY <1>1 DEF Shaped, ClaimPhases, ShortPhases, WritePhases
<1>3. PICK t \in Readings :
        LET age == IF x.req.op = "claim" THEN ClaimAge(x.req.claim, t) ELSE "valid"
        IN IF age # "valid"
           THEN Refuse(c, age)
           ELSE call' = [call EXCEPT ![c].at = t,
                                     ![c].pc = IF x.req.op = "claim"
                                               THEN (IF x.pc = "race" THEN "reload" ELSE "load")
                                               ELSE "evaluate"]
  BY DEF ReadClock
<1> DEFINE age == IF x.req.op = "claim" THEN ClaimAge(x.req.claim, t) ELSE "valid"
           pc == IF x.req.op = "claim"
                 THEN (IF x.pc = "race" THEN "reload" ELSE "load") ELSE "evaluate"
           y == [x EXCEPT !.at = t, !.pc = pc]
<1>4. age \in {"valid", "invalid_input", "idempotency_expired"}
  BY DEF ClaimAge
<1>5. CASE age # "valid"
  <2>1. Refuse(c, age)
    BY <1>3, <1>5
  <2>2. age \in ReplyCodes /\ age \notin {"data_corruption", "no_work", "claimed"}
    BY <1>4, <1>5 DEF ReplyCodes
  <2> HIDE DEF age
  <2> QED BY <1>1, <2>1, <2>2, RefuseStep
<1>6. CASE age = "valid"
  <2>1. call' = [call EXCEPT ![c] = y]
    BY <1>1, <1>3, <1>6
  <2>2. pc \in {"load", "reload", "evaluate"}
    OBVIOUS
  <2>3. t \in Nat
    BY DEF Readings
  <2>4. y \in Calls
    <3> HIDE DEF pc
    <3> QED BY <1>1, <2>2, <2>3 DEF Calls
  <2>5. /\ y.pc = pc /\ y.req = x.req /\ y.held = x.held /\ y.lease = x.lease
        /\ y.reply = x.reply
    BY <1>1 DEF Calls
  <2>6. Shaped(y)
    BY <1>1, <1>2, <2>5 DEF Shaped, ShortPhases, ClaimPhases, WritePhases, IsCommit
  <2>7. Stands(y, now, runs, leases, receipts, done)
    BY <1>1, <1>2, <2>5 DEF Stands, HasRow, WritePhases, IsCommit
  <2> HIDE DEF y, pc
  <2> QED BY <1>1, <2>1, <2>2, <2>4, <2>5, <2>6, <2>7, MoveStep DEF WritePhases
<1> QED BY <1>5, <1>6

\* A claim whose id is known is answered from its receipt or refused.
LEMMA LoadReceiptStep ==
  ASSUME LeaseInv, NEW c \in Callers, LoadReceipt(c)
  PROVE  LeaseInv'
<1> DEFINE x == call[c]
           stored == receipts[x.req.claim]
<1>1. /\ x.pc \in {"load", "reload"} /\ now' = now /\ UNCHANGED store /\ orphans' = orphans
      /\ x \in Calls /\ Shaped(x) /\ Stands(x, now, runs, leases, receipts, done)
  BY InvFacts DEF LoadReceipt
<1>2. /\ x.pc # "idle" /\ x.req \in Requests /\ x.req.op = "claim" /\ ~IsCommit(x.req)
      /\ x.held = {} /\ x.lease = None
  BY <1>1, ClaimCallFacts DEF Shaped, ClaimPhases, ShortPhases, WritePhases
<1>3. x.pc = "reload" => stored # None
  BY <1>1 DEF Stands
<1>4. CASE Refuse(c, "idempotency_conflict")
  BY <1>1, <1>2, <1>4, RefuseStep DEF ReplyCodes
<1>5. CASE Goto(c, "select")
  <2> DEFINE y == [x EXCEPT !.pc = "select"]
  <2>1. /\ call' = [call EXCEPT ![c] = y] /\ y \in Calls /\ y.pc = "select"
        /\ y.req = x.req /\ y.held = x.held /\ y.lease = x.lease /\ y.reply = x.reply
    BY <1>5, GotoFacts
  <2> HIDE DEF y
  <2>2. Shaped(y)
    BY <1>2, <2>1 DEF Shaped, ShortPhases, ClaimPhases, WritePhases
  <2>3. Stands(y, now, runs, leases, receipts, done)
    BY <1>2, <2>1 DEF Stands, HasRow, WritePhases
  <2> QED BY <1>1, <2>1, <2>2, <2>3, MoveStep DEF WritePhases
<1>6. CASE stored # None /\ Goto(c, "replay")
  <2> DEFINE y == [x EXCEPT !.pc = "replay"]
  <2>1. /\ call' = [call EXCEPT ![c] = y] /\ y \in Calls /\ y.pc = "replay"
        /\ y.req = x.req /\ y.held = x.held /\ y.lease = x.lease /\ y.reply = x.reply
    BY <1>6, GotoFacts
  <2> HIDE DEF y
  <2>2. Shaped(y)
    BY <1>2, <2>1 DEF Shaped, ShortPhases, ClaimPhases, WritePhases
  <2>3. Stands(y, now, runs, leases, receipts, done)
    BY <1>2, <1>6, <2>1 DEF Stands, HasRow, WritePhases
  <2> QED BY <1>1, <2>1, <2>2, <2>3, MoveStep DEF WritePhases
<1> QED BY <1>3, <1>4, <1>5, <1>6 DEF LoadReceipt

\* A replayed claim is answered what its receipt says.
LEMMA ReplayClaimStep ==
  ASSUME LeaseInv, NEW c \in Callers, ReplayClaim(c)
  PROVE  LeaseInv'
<1> DEFINE x == call[c]
           k == x.req.claim
           stored == receipts[k]
           grant == GrantOf(stored.run, stored.attempt, stored.version, stored.expires)
           authority == Authority(ProofOf(k, stored), leases[stored.run],
                                  runs[stored.run].status, x.at)
<1>1. /\ x.pc = "replay" /\ now' = now /\ UNCHANGED store /\ orphans' = orphans
      /\ Stands(x, now, runs, leases, receipts, done)
  BY InvFacts DEF ReplayClaim
<1>2. x.pc # "idle" /\ x.req.op = "claim" /\ k \in Claims
  BY <1>1, ClaimCallFacts DEF ClaimPhases
<1>3. stored \in Receipt
  <2>1. stored # None
    BY <1>1 DEF Stands
  <2> QED BY <1>2, <2>1, InvFacts
<1>4. stored.outcome \in {"no_work", "claimed"}
  BY <1>3 DEF Receipt
<1>5. CASE stored.outcome = "no_work"
  <2>1. Refuse(c, "no_work")
    BY <1>5 DEF ReplayClaim
  <2>2. ReplyStored(Answer(x.req, "no_work", FALSE, None), receipts)
    BY <1>2, <1>3, <1>5, RowsAssumption DEF ReplyStored, Answer
  <2> QED BY <1>1, <1>2, <2>1, <2>2, ReplyStep DEF Refuse, ReplyCodes
<1>6. CASE stored.outcome = "claimed"
  <2>1. Reply(c, "claimed", authority = "authoritative", grant)
    BY <1>6 DEF ReplayClaim
  <2>2. grant \in GrantRecord
    BY <1>3, <1>6, ClaimedFacts DEF GrantOf, GrantRecord
  <2>3. grant.run = stored.run /\ grant.attempt = stored.attempt
    BY DEF GrantOf
  <2> HIDE DEF grant, authority
  <2>4. ReplyStored(Answer(x.req, "claimed", authority = "authoritative", grant), receipts)
    BY <1>2, <1>3, <1>6, <2>3, RowsAssumption DEF ReplyStored, Answer
  <2>5. (authority = "authoritative") \in BOOLEAN
    OBVIOUS
  <2>6. "claimed" \in ReplyCodes
    BY DEF ReplyCodes
  <2> QED BY <1>1, <1>2, <2>1, <2>2, <2>4, <2>5, <2>6, ReplyStep
<1> QED BY <1>4, <1>5, <1>6

\* Both queries of a claim begin with the runs they see.
LEMMA SelectStep ==
  ASSUME LeaseInv, NEW c \in Callers, Select(c)
  PROVE  LeaseInv'
<1> DEFINE x == call[c]
           eligible == Eligible(x.at)
<1>1. /\ x.pc \in {"select", "probe"} /\ now' = now /\ UNCHANGED store /\ orphans' = orphans
      /\ call \in [Callers -> Calls] /\ x \in Calls /\ Shaped(x)
      /\ Stands(x, now, runs, leases, receipts, done)
  BY InvFacts DEF Select
<1>2. /\ x.pc # "idle" /\ x.req \in Requests /\ x.req.op = "claim" /\ ~IsCommit(x.req)
      /\ x.lease = None
  BY <1>1, ClaimCallFacts DEF Shaped, ClaimPhases, WritePhases
<1>3. eligible \subseteq Runs
  BY DEF Eligible
<1>4. \A r \in Runs \ eligible : runs[r].status = "queued" => leases[r] # None
  BY DEF Eligible, MayBeClaimed
<1> HIDE DEF eligible
<1>5. CASE call' = [call EXCEPT ![c].pc = "skip_locked", ![c].seen = eligible]
  <2> DEFINE y == [x EXCEPT !.pc = "skip_locked", !.seen = eligible]
  <2>1. call' = [call EXCEPT ![c] = y]
    BY <1>1, <1>5
  <2>2. /\ y \in Calls /\ y.pc = "skip_locked" /\ y.req = x.req /\ y.held = x.held
        /\ y.lease = x.lease /\ y.reply = x.reply
    BY <1>1, <1>3 DEF Calls
  <2> HIDE DEF y
  <2>3. Shaped(y)
    BY <1>2, <2>2 DEF Shaped, ShortPhases, ClaimPhases, WritePhases
  <2>4. Stands(y, now, runs, leases, receipts, done)
    BY <1>2, <2>2 DEF Stands, HasRow, WritePhases
  <2> QED BY <1>1, <2>1, <2>2, <2>3, <2>4, MoveStep DEF WritePhases
<1>6. CASE eligible = {} /\ Goto(c, "no_work")
  <2> DEFINE y == [x EXCEPT !.pc = "no_work"]
  <2>1. /\ call' = [call EXCEPT ![c] = y] /\ y \in Calls /\ y.pc = "no_work"
        /\ y.req = x.req /\ y.held = x.held /\ y.lease = x.lease /\ y.reply = x.reply
    BY <1>6, GotoFacts
  <2> HIDE DEF y
  <2>2. Shaped(y)
    BY <1>2, <2>1 DEF Shaped, ShortPhases, ClaimPhases, WritePhases
  <2>3. GivenBut({}, runs, leases)
    BY <1>4, <1>6 DEF GivenBut
  <2>4. Stands(y, now, runs, leases, receipts, done)
    BY <1>2, <2>1, <2>3 DEF Stands, HasRow, WritePhases
  <2> QED BY <1>1, <2>1, <2>2, <2>4, MoveStep DEF WritePhases
<1>7. ASSUME NEW r \in eligible,
             call' = [call EXCEPT ![c].pc = "wait", ![c].run = r, ![c].seen = eligible \ {r}]
      PROVE  LeaseInv'
  <2> DEFINE y == [x EXCEPT !.pc = "wait", !.run = r, !.seen = eligible \ {r}]
  <2>1. call' = [call EXCEPT ![c] = y]
    BY <1>1, <1>7
  <2>2. /\ y \in Calls /\ y.pc = "wait" /\ y.req = x.req /\ y.held = x.held
        /\ y.lease = x.lease /\ y.reply = x.reply /\ y.run = r /\ y.seen = eligible \ {r}
    BY <1>1, <1>3 DEF Calls
  <2> HIDE DEF y
  <2>3. Shaped(y)
    BY <1>2, <1>3, <2>2 DEF Shaped, ShortPhases, ClaimPhases, WritePhases
  <2>4. GivenBut(y.seen \cup {y.run}, runs, leases)
    BY <1>4, <2>2 DEF GivenBut
  <2>5. Stands(y, now, runs, leases, receipts, done)
    BY <1>2, <2>2, <2>4 DEF Stands, HasRow, WritePhases
  <2> QED BY <1>1, <2>1, <2>2, <2>3, <2>5, MoveStep DEF WritePhases
<1> QED BY <1>5, <1>6, <1>7 DEF Select, eligible

\* A row that nobody else holds is locked, while its run is queued.
LEMMA LockStep ==
  ASSUME LeaseInv, NEW c \in Callers, call[c].pc \in {"skip_locked", "wait"},
         NEW r \in Runs, RunFree(c, r), runs[r].status = "queued", Lock(c, r),
         now' = now, UNCHANGED store, orphans' = orphans
  PROVE  LeaseInv'
<1> DEFINE x == call[c]
           y == [x EXCEPT !.pc = "recheck", !.run = r, !.held = x.held \cup {r}, !.seen = {}]
<1>1. call \in [Callers -> Calls] /\ x \in Calls /\ Shaped(x)
  BY InvFacts
<1>2. /\ x.req \in Requests /\ x.req.op = "claim" /\ ~IsCommit(x.req) /\ x.lease = None
  BY <1>1, ClaimCallFacts DEF Shaped, ClaimPhases, WritePhases
<1>3. call' = [call EXCEPT ![c] = y]
  BY <1>1 DEF Lock
<1>4. /\ y \in Calls /\ y.pc = "recheck" /\ y.run = r /\ y.held = x.held \cup {r}
      /\ y.req = x.req /\ y.lease = x.lease /\ y.reply = x.reply
  BY <1>1 DEF Calls
<1> HIDE DEF y
<1>5. Shaped(y)
  BY <1>2, <1>4 DEF Shaped, ShortPhases, ClaimPhases, WritePhases
<1>6. RowStands(y, now, runs[y.run], leases[y.run])
  BY <1>2, <1>4 DEF RowStands, ClaimStands, IsCommit
<1>7. Stands(y, now, runs, leases, receipts, done)
  BY <1>2, <1>4, <1>6 DEF Stands, WritePhases
<1>8. ASSUME NEW z \in Others(c)
      PROVE  Apart(y, z)
  <2>1. Apart(x, z) /\ r \notin z.held
    BY InvFacts DEF RunFree
  <2> QED BY <1>4, <2>1, KeysByPhase DEF Apart, WritePhases
<1>9. ReplyStored(y.reply, receipts)
  BY <1>4, InvFacts
<1> QED BY <1>3, <1>4, <1>5, <1>7, <1>8, <1>9, CallStep

\* The fast path locks one of the rows nobody holds.
LEMMA SkipLockedStep ==
  ASSUME LeaseInv, NEW c \in Callers, SkipLocked(c)
  PROVE  LeaseInv'
<1> DEFINE x == call[c]
           unlocked == {r \in x.seen : RunFree(c, r) /\ runs[r].status = "queued"}
<1>1. /\ x.pc = "skip_locked" /\ now' = now /\ UNCHANGED store /\ orphans' = orphans
      /\ call \in [Callers -> Calls] /\ x \in Calls /\ Shaped(x)
  BY InvFacts DEF SkipLocked
<1>2. /\ x.req \in Requests /\ x.req.op = "claim" /\ ~IsCommit(x.req) /\ x.lease = None
  BY <1>1, ClaimCallFacts DEF Shaped, ClaimPhases, WritePhases
<1>3. ASSUME NEW r \in unlocked, Lock(c, r)
      PROVE  LeaseInv'
  <2>1. r \in Runs /\ RunFree(c, r) /\ runs[r].status = "queued"
    BY <1>1, CallFacts
  <2> QED BY <1>1, <1>3, <2>1, LockStep
<1>4. CASE call' = [call EXCEPT ![c].pc = "probe", ![c].seen = {}]
  <2> DEFINE y == [x EXCEPT !.pc = "probe", !.seen = {}]
  <2>1. call' = [call EXCEPT ![c] = y]
    BY <1>1, <1>4
  <2>2. /\ y \in Calls /\ y.pc = "probe" /\ y.req = x.req /\ y.held = x.held
        /\ y.lease = x.lease /\ y.reply = x.reply
    BY <1>1 DEF Calls
  <2> HIDE DEF y
  <2>3. Shaped(y)
    BY <1>2, <2>2 DEF Shaped, ShortPhases, ClaimPhases, WritePhases
  <2>4. Stands(y, now, runs, leases, receipts, done)
    BY <1>2, <2>2 DEF Stands, HasRow, WritePhases
  <2> QED BY <1>1, <2>1, <2>2, <2>3, <2>4, MoveStep DEF WritePhases
<1> QED BY <1>3, <1>4 DEF SkipLocked

\* The slow path waits for one row after the other, and gives up when there is none left.
LEMMA ProbeGetsRowStep ==
  ASSUME LeaseInv, NEW c \in Callers, ProbeGetsRow(c)
  PROVE  LeaseInv'
<1> DEFINE x == call[c]
<1>1. /\ x.pc = "wait" /\ now' = now /\ UNCHANGED store /\ orphans' = orphans
      /\ RunFree(c, x.run)
      /\ call \in [Callers -> Calls] /\ x \in Calls /\ Shaped(x)
      /\ Stands(x, now, runs, leases, receipts, done)
  BY InvFacts DEF ProbeGetsRow
<1>2. /\ x.req \in Requests /\ x.req.op = "claim" /\ ~IsCommit(x.req) /\ x.lease = None
      /\ x.run \in Runs
  BY <1>1, ClaimCallFacts DEF Shaped, ClaimPhases, WritePhases
<1>3. GivenBut(x.seen \cup {x.run}, runs, leases)
  BY <1>1 DEF Stands
<1>4. CASE runs[x.run].status = "queued" /\ Lock(c, x.run)
  BY <1>1, <1>2, <1>4, LockStep
<1>5. CASE runs[x.run].status # "queued" /\ x.seen = {} /\ Goto(c, "no_work")
  <2> DEFINE y == [x EXCEPT !.pc = "no_work"]
  <2>1. /\ call' = [call EXCEPT ![c] = y] /\ y \in Calls /\ y.pc = "no_work"
        /\ y.req = x.req /\ y.held = x.held /\ y.lease = x.lease /\ y.reply = x.reply
    BY <1>5, GotoFacts
  <2> HIDE DEF y
  <2>2. Shaped(y)
    BY <1>2, <2>1 DEF Shaped, ShortPhases, ClaimPhases, WritePhases
  <2>3. GivenBut({}, runs, leases)
    BY <1>3, <1>5 DEF GivenBut
  <2>4. Stands(y, now, runs, leases, receipts, done)
    BY <1>2, <2>1, <2>3 DEF Stands, HasRow, WritePhases
  <2> QED BY <1>1, <2>1, <2>2, <2>4, MoveStep DEF WritePhases
<1>6. ASSUME runs[x.run].status # "queued", NEW next \in x.seen,
             call' = [call EXCEPT ![c].run = next, ![c].seen = x.seen \ {next}]
      PROVE  LeaseInv'
  <2> DEFINE y == [x EXCEPT !.run = next, !.seen = x.seen \ {next}]
  <2>1. call' = [call EXCEPT ![c] = y]
    BY <1>1, <1>6
  <2>2. /\ y \in Calls /\ y.pc = "wait" /\ y.req = x.req /\ y.held = x.held
        /\ y.lease = x.lease /\ y.reply = x.reply
        /\ y.run = next /\ y.seen = x.seen \ {next} /\ next \in Runs
    BY <1>1 DEF Calls
  <2> HIDE DEF y
  <2>3. Shaped(y)
    BY <1>2, <2>2 DEF Shaped, ShortPhases, ClaimPhases, WritePhases
  <2>4. GivenBut(y.seen \cup {y.run}, runs, leases)
    BY <1>3, <1>6, <2>2 DEF GivenBut
  <2>5. Stands(y, now, runs, leases, receipts, done)
    BY <1>2, <2>2, <2>4 DEF Stands, HasRow, WritePhases
  <2> QED BY <1>1, <2>1, <2>2, <2>3, <2>5, MoveStep DEF WritePhases
<1> QED BY <1>4, <1>5, <1>6 DEF ProbeGetsRow

\* A reading of the clock is a time it has shown, and a lease may be claimed ever after.
LEMMA ClockFacts ==
  ASSUME now \in Nat, NEW t \in Readings, NEW lease \in Lease \cup {None}
  PROVE  /\ t \in 0 .. now /\ t \in Nat
         /\ MayBeClaimed(lease, t) => MayBeClaimed(lease, now)
BY DEF Readings, MayBeClaimed, Lapsed, Lease

\* What is relied on does not depend on the phase.
LEMMA RowStandsOn ==
  ASSUME NEW x, NEW y, NEW t, NEW run, NEW lease, RowStands(x, t, run, lease),
         y.req = x.req, y.run = x.run, y.lease = x.lease, y.held = x.held
  PROVE  RowStands(y, t, run, lease)
BY DEF RowStands, ClaimStands, MutationStands, CommitStands

\* Under the row lock the lease decides whether the run may be claimed.
LEMMA RecheckStep ==
  ASSUME LeaseInv, NEW c \in Callers, Recheck(c)
  PROVE  LeaseInv'
<1> DEFINE x == call[c]
           r == x.run
<1>1. /\ x.pc = "recheck" /\ now' = now /\ UNCHANGED store /\ orphans' = orphans
      /\ call \in [Callers -> Calls] /\ x \in Calls /\ Shaped(x)
      /\ Stands(x, now, runs, leases, receipts, done) /\ now \in Nat
  BY InvFacts DEF Recheck
<1>2. /\ x.req \in ClaimRequest /\ x.req \in Requests /\ x.req.op = "claim"
      /\ ~IsCommit(x.req) /\ x.lease = None /\ r \in Runs
  BY <1>1, ClaimCallFacts DEF Shaped, ClaimPhases, WritePhases
<1>3. RowStands(x, now, runs[r], leases[r])
  BY <1>1 DEF Stands, HasRow
<1>4. leases[r] \in Lease \cup {None}
  BY <1>2, InvFacts
<1>5. PICK t \in Readings :
        IF MayBeClaimed(leases[r], t)
        THEN call' = [call EXCEPT ![c].pc = "store", ![c].at = 0,
                                  ![c].lease = NextLease(leases[r], x.req, c, t)]
        ELSE call' = [call EXCEPT ![c].pc = "select", ![c].at = t, ![c].run = None]
  BY DEF Recheck
<1>6. t \in 0 .. now /\ t \in Nat /\ (MayBeClaimed(leases[r], t) => MayBeClaimed(leases[r], now))
  BY <1>1, <1>4, ClockFacts
<1>7. CASE MayBeClaimed(leases[r], t)
  <2> DEFINE new == NextLease(leases[r], x.req, c, t)
             y == [x EXCEPT !.pc = "store", !.at = 0, !.lease = new]
  <2>1. call' = [call EXCEPT ![c] = y]
    BY <1>1, <1>5, <1>7
  <2>2. c \in Tokens
    BY CallsAssumption
  <2>3. new \in Lease /\ new # None
    BY <1>2, <1>4, <1>6, <2>2, NextLeaseFacts, RowsAssumption
  <2>4. \E at \in 0 .. now, token \in Tokens : new = NextLease(leases[r], x.req, token, at)
    BY <1>6, <2>2
  <2> HIDE DEF new
  <2>5. /\ y \in Calls /\ y.pc = "store" /\ y.req = x.req /\ y.held = x.held
        /\ y.lease = new /\ y.reply = x.reply /\ y.run = r
    BY <1>1, <2>3 DEF Calls
  <2> HIDE DEF y
  <2>6. Shaped(y)
    BY <1>2, <2>3, <2>5 DEF Shaped, ShortPhases, ClaimPhases, WritePhases
  <2>7. RowStands(y, now, runs[y.run], leases[y.run])
    BY <1>2, <1>3, <1>6, <1>7, <2>4, <2>5 DEF RowStands, ClaimStands, IsCommit
  <2>8. Stands(y, now, runs, leases, receipts, done)
    BY <1>2, <2>5, <2>7 DEF Stands, WritePhases
  <2> QED BY <1>1, <2>1, <2>5, <2>6, <2>8, MoveStep DEF WritePhases
<1>8. CASE ~MayBeClaimed(leases[r], t)
  <2> DEFINE y == [x EXCEPT !.pc = "select", !.at = t, !.run = None]
  <2>1. call' = [call EXCEPT ![c] = y]
    BY <1>1, <1>5, <1>8
  <2>2. /\ y \in Calls /\ y.pc = "select" /\ y.req = x.req /\ y.held = x.held
        /\ y.lease = x.lease /\ y.reply = x.reply
    BY <1>1, <1>6 DEF Calls
  <2> HIDE DEF y
  <2>3. Shaped(y)
    BY <1>2, <2>2 DEF Shaped, ShortPhases, ClaimPhases, WritePhases
  <2>4. Stands(y, now, runs, leases, receipts, done)
    BY <1>2, <2>2 DEF Stands, HasRow, WritePhases
  <2> QED BY <1>1, <2>1, <2>2, <2>3, <2>4, MoveStep DEF WritePhases
<1> QED BY <1>7, <1>8

\* A claim id that a lease bears was answered.
LEMMA StoreLeaseStep ==
  ASSUME LeaseInv, NEW c \in Callers, StoreLease(c)
  PROVE  LeaseInv'
<1> DEFINE x == call[c]
           k == x.req.claim
<1>1. /\ x.pc = "store" /\ now' = now /\ UNCHANGED store /\ orphans' = orphans
      /\ x \in Calls /\ Shaped(x) /\ Stands(x, now, runs, leases, receipts, done)
  BY InvFacts DEF StoreLease
<1>2. /\ x.pc # "idle" /\ x.req \in Requests /\ x.req.op = "claim"
      /\ ~IsCommit(x.req) /\ x.lease # None /\ x.run \in Runs
  BY <1>1, ClaimCallFacts DEF Shaped, ClaimPhases, WritePhases
<1>3. CASE (\E r \in Runs \ {x.run} : leases[r] # None /\ leases[r].claim = k) /\ LoseRace(c)
  <2>1. receipts[k] # None
    BY <1>3 DEF LeaseInv, ClaimsAreHonest, Granted
  <2> QED BY <1>1, <1>2, <1>3, <2>1, LoseRaceStep
<1>4. CASE Goto(c, "receipt")
  <2> DEFINE y == [x EXCEPT !.pc = "receipt"]
  <2>1. /\ call' = [call EXCEPT ![c] = y] /\ y \in Calls /\ y.pc = "receipt"
        /\ y.req = x.req /\ y.held = x.held /\ y.lease = x.lease /\ y.reply = x.reply
        /\ y.run = x.run
    BY <1>4, GotoFacts
  <2> HIDE DEF y
  <2>2. Shaped(y)
    BY <1>2, <2>1 DEF Shaped, ShortPhases, ClaimPhases, WritePhases
  <2>3. RowStands(y, now, runs[y.run], leases[y.run])
    BY <1>1, <2>1, RowStandsOn DEF Stands, HasRow
  <2>4. Stands(y, now, runs, leases, receipts, done)
    BY <1>2, <2>1, <2>3 DEF Stands, WritePhases
  <2> QED BY <1>1, <2>1, <2>2, <2>4, MoveStep DEF WritePhases
<1> QED BY <1>3, <1>4 DEF StoreLease

\* The receipt is inserted, or somebody else's is there.
LEMMA InsertReceiptStep ==
  ASSUME LeaseInv, NEW c \in Callers, InsertReceipt(c)
  PROVE  LeaseInv'
<1> DEFINE x == call[c]
           k == x.req.claim
<1>1. /\ x.pc \in {"receipt", "no_work"} /\ now' = now /\ UNCHANGED store /\ orphans' = orphans
      /\ ReceiptKeyFree(c, k)
      /\ x \in Calls /\ Shaped(x) /\ Stands(x, now, runs, leases, receipts, done)
  BY InvFacts DEF InsertReceipt
<1>2. /\ x.pc # "idle" /\ x.req \in Requests /\ x.req.op = "claim" /\ ~IsCommit(x.req)
  BY <1>1, ClaimCallFacts DEF ClaimPhases
<1>3. CASE receipts[k] # None /\ LoseRace(c)
  BY <1>1, <1>2, <1>3, LoseRaceStep
<1>4. CASE receipts[k] = None /\ Goto(c, "write")
  <2> DEFINE y == [x EXCEPT !.pc = "write"]
  <2>1. /\ call' = [call EXCEPT ![c] = y] /\ y \in Calls /\ y.pc = "write"
        /\ y.req = x.req /\ y.held = x.held /\ y.lease = x.lease /\ y.reply = x.reply
        /\ y.run = x.run
    BY <1>4, GotoFacts
  <2> HIDE DEF y
  <2>2. Shaped(y)
    BY <1>2, <2>1 DEF Shaped, ShortPhases, ClaimPhases, WritePhases
  <2>3. y.lease # None => RowStands(y, now, runs[y.run], leases[y.run])
    <3>1. x.lease # None => x.pc = "receipt"
      BY <1>1 DEF Shaped, WritePhases
    <3> QED BY <1>1, <2>1, <3>1, RowStandsOn DEF Stands, HasRow
  <2>4. y.lease = None => GivenBut({}, runs, leases)
    <3>1. x.lease = None => x.pc = "no_work"
      BY <1>1 DEF Shaped
    <3> QED BY <1>1, <2>1, <3>1 DEF Stands
  <2>5. Stands(y, now, runs, leases, receipts, done)
    BY <1>2, <1>4, <2>1, <2>3, <2>4 DEF Stands, HasRow
  <2>6. \A z \in Others(c) : Apart(y, z)
    <3> SUFFICES ASSUME NEW z \in Others(c)
                 PROVE  Apart(y, z)
      OBVIOUS
    <3>1. Apart(x, z) /\ ~HoldsReceiptKey(z, k)
      BY <1>1, InvFacts DEF ReceiptKeyFree
    <3>2. \A j \in Claims : HoldsReceiptKey(y, j) => j = k
      BY <2>1 DEF HoldsReceiptKey
    <3>3. \A q \in Commands : ~HoldsCommandKey(y, q)
      BY <1>2, <2>1 DEF HoldsCommandKey
    <3> QED BY <2>1, <3>1, <3>2, <3>3 DEF Apart
  <2>7. ReplyStored(y.reply, receipts)
    BY <2>1, InvFacts
  <2> QED BY <1>1, <2>1, <2>2, <2>5, <2>6, <2>7, CallStep
<1> QED BY <1>3, <1>4 DEF InsertReceipt

\* COMMIT is sent: from here on the transaction is out of the hands of its client.
LEMMA SendCommitStep ==
  ASSUME LeaseInv, NEW c \in Callers, SendCommit(c)
  PROVE  LeaseInv'
<1> DEFINE x == call[c]
           y == [x EXCEPT !.pc = "sent"]
<1>1. /\ x.pc = "write" /\ now' = now /\ UNCHANGED store /\ orphans' = orphans
      /\ x \in Calls /\ Shaped(x) /\ Stands(x, now, runs, leases, receipts, done)
      /\ Goto(c, "sent")
  BY InvFacts DEF SendCommit
<1>2. /\ call' = [call EXCEPT ![c] = y] /\ y \in Calls /\ y.pc = "sent"
      /\ y.req = x.req /\ y.held = x.held /\ y.lease = x.lease /\ y.reply = x.reply
      /\ y.run = x.run
  BY <1>1, GotoFacts
<1> HIDE DEF y
<1>3. Shaped(y)
  BY <1>1, <1>2 DEF Shaped, ShortPhases, ClaimPhases, WritePhases
<1>4. HasRow(y) => RowStands(y, now, runs[y.run], leases[y.run])
  BY <1>1, <1>2, RowStandsOn DEF Stands, HasRow, WritePhases
<1>5. Stands(y, now, runs, leases, receipts, done)
  BY <1>1, <1>2, <1>4 DEF Stands, WritePhases
<1>6. \A z \in Others(c) : Apart(y, z)
  BY <1>1, <1>2, InvFacts, ApartShrinks DEF HoldsReceiptKey, HoldsCommandKey
<1>7. ReplyStored(y.reply, receipts)
  BY <1>2, InvFacts
<1> QED BY <1>1, <1>2, <1>3, <1>5, <1>6, <1>7, CallStep
-----------------------------------------------------------------------------
(***************************************************************************)
(* get_authority, renew, release and the commits.                          *)
(***************************************************************************)
\* What a verdict says of the lease and the run it was given on.
LEMMA AuthorityFacts ==
  ASSUME NEW p, NEW lease, NEW status, NEW at
  PROVE  /\ Authority(p, lease, status, at)
              \in {"lease_not_current", "lease_expired", "authoritative"}
         /\ Authority(p, lease, status, at) = "authoritative" =>
              /\ lease # None /\ ProofMatches(p, lease) /\ lease.released = None
              /\ status \in Workable
BY DEF Authority

\* A call is told what its proof is worth.
LEMMA ReplyAuthorityStep ==
  ASSUME LeaseInv, NEW c \in Callers, call[c].pc # "idle",
         call[c].req.op \in {"renew", "release", "get_authority"},
         now' = now, UNCHANGED store, orphans' = orphans,
         NEW code \in {"lease_not_current", "lease_expired", "authoritative"},
         NEW lease \in Lease \cup {None}, ReplyAuthority(c, code, lease)
  PROVE  LeaseInv'
<1> DEFINE p == call[c].req.proof
           grant == IF lease # None /\ ProofMatches(p, lease)
                    THEN GrantOfLease(p.run, lease) ELSE None
<1>1. Reply(c, code, code = "authoritative", grant)
  BY DEF ReplyAuthority
<1>2. p.run \in Runs
  <2>1. call[c].req \in Requests
    BY InvFacts DEF Shaped
  <2>2. p \in Proof
    BY <2>1, RequestFacts DEF RenewRequest, ReleaseRequest, AuthorityRequest
  <2> QED BY <2>2 DEF Proof
<1>3. grant \in {None} \cup GrantRecord
  <2>1. ASSUME lease # None
        PROVE  GrantOfLease(p.run, lease) \in GrantRecord
    BY <1>2, <2>1 DEF GrantOfLease, GrantOf, GrantRecord, Lease
  <2> QED BY <2>1
<1>4. code \in ReplyCodes /\ (code = "authoritative") \in BOOLEAN /\ call[c].req.op # "claim"
  BY DEF ReplyCodes
<1> HIDE DEF grant
<1> QED BY <1>1, <1>3, <1>4, ReplyStep

\* get_authority reads, and answers.
LEMMA EvaluateStep ==
  ASSUME LeaseInv, NEW c \in Callers, Evaluate(c)
  PROVE  LeaseInv'
<1> DEFINE p == call[c].req.proof
           lease == leases[p.run]
<1>1. /\ call[c].pc = "evaluate" /\ now' = now /\ UNCHANGED store /\ orphans' = orphans
      /\ ReplyAuthority(c, Authority(p, lease, runs[p.run].status, call[c].at), lease)
  BY DEF Evaluate
<1>2. call[c].req.op = "get_authority" /\ call[c].req \in Requests
  BY <1>1, InvFacts DEF Shaped
<1>3. lease \in Lease \cup {None}
  <2>1. p.run \in Runs
    BY <1>2, RequestFacts DEF AuthorityRequest, Proof
  <2> QED BY <2>1, InvFacts
<1> HIDE DEF lease
<1> QED BY <1>1, <1>2, <1>3, AuthorityFacts, ReplyAuthorityStep

\* The transaction that is about to write y holds its row.
LEMMA TakeRowStep ==
  ASSUME LeaseInv, NEW c \in Callers, call[c].pc = "lock",
         NEW r \in Runs, RunFree(c, r), NEW lease \in Lease \cup {None},
         LET y == [call[c] EXCEPT !.pc = "write", !.run = r, !.held = {r}, !.lease = lease]
         IN call' = [call EXCEPT ![c] = y] /\ RowStands(y, now, runs[r], leases[r]),
         IsCommit(call[c].req) \/ lease # None,
         now' = now, UNCHANGED store, orphans' = orphans
  PROVE  LeaseInv'
<1> DEFINE x == call[c]
           y == [x EXCEPT !.pc = "write", !.run = r, !.held = {r}, !.lease = lease]
<1>1. /\ call \in [Callers -> Calls] /\ x \in Calls /\ Shaped(x)
      /\ Stands(x, now, runs, leases, receipts, done)
  BY InvFacts
<1>2. /\ x.req \in Requests /\ (x.req.op \in {"renew", "release"} \/ IsCommit(x.req))
      /\ x.req.op \notin {"claim", "get_authority"}
  BY <1>1 DEF Shaped, IsCommit
<1>3. call' = [call EXCEPT ![c] = y] /\ RowStands(y, now, runs[r], leases[r])
  OBVIOUS
<1>4. /\ y \in Calls /\ y.pc = "write" /\ y.req = x.req /\ y.held = {r} /\ y.run = r
      /\ y.lease = lease /\ y.reply = x.reply
  BY <1>1 DEF Calls
<1> HIDE DEF y
<1>5. Shaped(y)
  BY <1>1, <1>2, <1>4 DEF Shaped, ShortPhases, ClaimPhases, WritePhases, IsCommit
<1>6. Stands(y, now, runs, leases, receipts, done)
  BY <1>1, <1>2, <1>3, <1>4 DEF Stands
<1>7. \A z \in Others(c) : Apart(y, z)
  <2> SUFFICES ASSUME NEW z \in Others(c)
               PROVE  Apart(y, z)
    OBVIOUS
  <2>1. Apart(x, z) /\ r \notin z.held
    BY InvFacts DEF RunFree
  <2>2. \A k \in Claims : ~HoldsReceiptKey(y, k)
    BY <1>2, <1>4 DEF HoldsReceiptKey
  <2>3. \A q \in Commands : HoldsCommandKey(y, q) => HoldsCommandKey(x, q)
    BY <1>4 DEF HoldsCommandKey
  <2> QED BY <1>4, <2>1, <2>2, <2>3 DEF Apart
<1>8. ReplyStored(y.reply, receipts)
  BY <1>4, InvFacts
<1> QED BY <1>3, <1>4, <1>5, <1>6, <1>7, <1>8, CallStep

\* renew and release write what they decided under the row lock, or answer.
LEMMA DecideMutationStep ==
  ASSUME LeaseInv, NEW c \in Callers, DecideMutation(c)
  PROVE  LeaseInv'
<1> DEFINE x == call[c]
           p == x.req.proof
           r == p.run
           lease == leases[r]
           status == runs[r].status
           Written(row) == call' = [call EXCEPT ![c].pc = "write", ![c].run = r,
                                                ![c].held = {r}, ![c].lease = row]
<1>1. /\ x.pc = "lock" /\ x.req.op \in {"renew", "release"} /\ RunFree(c, r)
      /\ now' = now /\ UNCHANGED store /\ orphans' = orphans
      /\ call \in [Callers -> Calls] /\ x \in Calls /\ Shaped(x) /\ now \in Nat
  BY InvFacts DEF DecideMutation
<1>2. /\ x.req \in Requests /\ p \in Proof /\ r \in Runs
      /\ x.req.op = "renew" => x.req.duration \in Durations
  <2>1. x.req \in Requests
    BY <1>1 DEF Shaped
  <2> QED BY <1>1, <2>1, RequestFacts DEF RenewRequest, ReleaseRequest, Proof
<1>3. lease \in Lease \cup {None}
  BY <1>2, InvFacts
<1>4. ASSUME NEW code \in {"data_corruption", "storage_unavailable"}, Refuse(c, code)
      PROVE  LeaseInv'
  BY <1>1, <1>4, RefuseStep DEF ReplyCodes
<1>5. ASSUME NEW t \in Readings, lease # None, NEW row \in Lease, Written(row), RowAllowed(row),
             ProofMatches(p, lease), lease.released = None,
             \/ /\ x.req.op = "renew" /\ status \in Workable
                /\ row = RenewedLease(lease, x.req.duration, t)
             \/ x.req.op = "release" /\ row = ReleasedLease(lease, t)
      PROVE  LeaseInv'
  <2> DEFINE y == [x EXCEPT !.pc = "write", !.run = r, !.held = {r}, !.lease = row]
  <2>1. call' = [call EXCEPT ![c] = y]
    BY <1>1, <1>5
  <2>2. /\ y.req = x.req /\ y.held = {r} /\ y.run = r /\ y.lease = row
    BY <1>1 DEF Calls
  <2>3. row # None /\ t \in 0 .. now
    BY <1>1, <1>3, RowsAssumption, ClockFacts
  <2>4. RowStands(y, now, runs[r], leases[r])
    <3> HIDE DEF y
    <3> QED BY <1>1, <1>2, <1>5, <2>2, <2>3 DEF RowStands, MutationStands, IsCommit
  <2> QED BY <1>1, <1>2, <2>1, <2>3, <2>4, TakeRowStep
<1>6. CASE lease = None
  BY <1>4, <1>6 DEF DecideMutation
<1>7. CASE lease # None
  <2>1. PICK t \in Readings :
          \/ /\ x.req.op = "renew" /\ MayRenew(p, x.req.expected, lease, status, t)
             /\ LET row == RenewedLease(lease, x.req.duration, t)
                IN IF RowAllowed(row) THEN Written(row) ELSE Refuse(c, "storage_unavailable")
          \/ /\ x.req.op = "release" /\ MayRelease(p, x.req.expected, lease, status, t)
             /\ LET row == ReleasedLease(lease, t)
                IN IF RowAllowed(row) THEN Written(row) ELSE Refuse(c, "storage_unavailable")
          \/ ReplyAuthority(c, Authority(p, lease, status, t), lease)
    BY <1>7, ZenonT(60) DEF DecideMutation
  <2>2. t \in Nat
    BY <1>1, ClockFacts DEF Readings
  <2>3. CASE /\ x.req.op = "renew" /\ MayRenew(p, x.req.expected, lease, status, t)
             /\ LET row == RenewedLease(lease, x.req.duration, t)
                IN IF RowAllowed(row) THEN Written(row) ELSE Refuse(c, "storage_unavailable")
    <3> DEFINE row == RenewedLease(lease, x.req.duration, t)
    <3>1. row \in Lease
      BY <1>2, <1>3, <1>7, <2>2, <2>3, RenewedLeaseFacts
    <3>2. ProofMatches(p, lease) /\ lease.released = None /\ status \in Workable
      BY <2>3, AuthorityFacts DEF MayRenew
    <3>3. CASE RowAllowed(row) /\ Written(row)
      BY <1>5, <1>7, <2>3, <3>1, <3>2, <3>3
    <3>4. CASE Refuse(c, "storage_unavailable")
      BY <1>4, <3>4, SMTT(30)
    <3> QED BY <2>3, <3>3, <3>4, ZenonT(60)
  <2>4. CASE /\ x.req.op = "release" /\ MayRelease(p, x.req.expected, lease, status, t)
             /\ LET row == ReleasedLease(lease, t)
                IN IF RowAllowed(row) THEN Written(row) ELSE Refuse(c, "storage_unavailable")
    <3> DEFINE row == ReleasedLease(lease, t)
    <3>1. row \in Lease
      BY <1>3, <1>7, <2>2, ReleasedLeaseFacts, SMTT(30)
    <3>2. ProofMatches(p, lease) /\ lease.released = None
      BY <2>4 DEF MayRelease
    <3>3. CASE RowAllowed(row) /\ Written(row)
      BY <1>5, <1>7, <2>4, <3>1, <3>2, <3>3
    <3>4. CASE Refuse(c, "storage_unavailable")
      BY <1>4, <3>4
    <3> QED BY <2>4, <3>3, <3>4
  <2>5. CASE ReplyAuthority(c, Authority(p, lease, status, t), lease)
    <3>1. x.pc # "idle" /\ x.req.op \in {"renew", "release", "get_authority"}
      BY <1>1
    <3> HIDE DEF lease, status
    <3> QED BY <1>1, <1>3, <2>5, <3>1, AuthorityFacts, ReplyAuthorityStep
  <2> QED BY <2>1, <2>3, <2>4, <2>5, ZenonT(60)
<1> QED BY <1>6, <1>7

\* A commit inserts its receipt first, or replays the one that is there.
LEMMA ArbitrateCommitStep ==
  ASSUME LeaseInv, NEW c \in Callers, ArbitrateCommit(c)
  PROVE  LeaseInv'
<1> DEFINE x == call[c]
           q == x.req.command
<1>1. /\ x.pc = "arbitrate" /\ now' = now /\ UNCHANGED store /\ orphans' = orphans
      /\ CommandKeyFree(c, q)
      /\ x \in Calls /\ Shaped(x) /\ Stands(x, now, runs, leases, receipts, done)
  BY InvFacts DEF ArbitrateCommit
<1>2. IsCommit(x.req) /\ x.req \in Requests /\ x.held = {} /\ x.req.op # "claim"
      /\ x.lease = None
  BY <1>1 DEF Shaped, ShortPhases, WritePhases, IsCommit
<1>3. ASSUME NEW code \in {"idempotency_conflict", "replayed"}, Refuse(c, code)
      PROVE  LeaseInv'
  BY <1>1, <1>2, <1>3, RefuseStep DEF ReplyCodes
<1>4. CASE done[q] = None /\ Goto(c, "lock")
  <2> DEFINE y == [x EXCEPT !.pc = "lock"]
  <2>1. /\ call' = [call EXCEPT ![c] = y] /\ y \in Calls /\ y.pc = "lock"
        /\ y.req = x.req /\ y.held = x.held /\ y.lease = x.lease /\ y.reply = x.reply
    BY <1>4, GotoFacts
  <2> HIDE DEF y
  <2>2. Shaped(y)
    BY <1>1, <1>2, <2>1 DEF Shaped, ShortPhases, ClaimPhases, WritePhases
  <2>3. Stands(y, now, runs, leases, receipts, done)
    BY <1>1, <1>2, <1>4, <2>1 DEF Stands, HasRow, WritePhases
  <2>4. \A z \in Others(c) : Apart(y, z)
    <3> SUFFICES ASSUME NEW z \in Others(c)
                 PROVE  Apart(y, z)
      OBVIOUS
    <3>1. ~HoldsCommandKey(z, q)
      BY <1>1 DEF CommandKeyFree
    <3>2. \A p \in Commands : HoldsCommandKey(y, p) => p = q
      BY <2>1 DEF HoldsCommandKey
    <3>3. \A k \in Claims : ~HoldsReceiptKey(y, k)
      BY <2>1 DEF HoldsReceiptKey
    <3> QED BY <1>2, <2>1, <3>1, <3>2, <3>3 DEF Apart
  <2>5. ReplyStored(y.reply, receipts)
    BY <2>1, InvFacts
  <2> QED BY <1>1, <2>1, <2>2, <2>3, <2>4, <2>5, CallStep
<1> QED BY <1>3, <1>4 DEF ArbitrateCommit

\* A commit locks its run, judges the lease and compares the version.
LEMMA LockForCommitStep ==
  ASSUME LeaseInv, NEW c \in Callers, LockForCommit(c)
  PROVE  LeaseInv'
<1> DEFINE x == call[c]
           req == x.req
           r == req.run
<1>1. /\ x.pc = "lock" /\ IsCommit(req) /\ RunFree(c, r)
      /\ now' = now /\ UNCHANGED store /\ orphans' = orphans
      /\ call \in [Callers -> Calls] /\ x \in Calls /\ Shaped(x)
      /\ Stands(x, now, runs, leases, receipts, done)
  BY InvFacts DEF LockForCommit
<1>2. req \in Requests /\ r \in Runs /\ req.op # "claim" /\ x.lease = None
  BY <1>1, RequestFacts DEF Shaped, WritePhases, IsCommit
<1>3. ASSUME NEW code \in {"lease_not_current", "lease_expired", "version_conflict"},
             Refuse(c, code)
      PROVE  LeaseInv'
  BY <1>1, <1>2, <1>3, RefuseStep DEF ReplyCodes
<1>4. PICK authority \in Verdicts(req) :
        IF authority # "authoritative"
        THEN Refuse(c, authority)
        ELSE IF runs[r].version # req.expected
        THEN Refuse(c, "version_conflict")
        ELSE call' = [call EXCEPT ![c].pc = "write", ![c].run = r, ![c].held = {r}]
  BY DEF LockForCommit
<1>5. authority \in {"lease_not_current", "lease_expired", "authoritative"}
  BY AuthorityFacts DEF Verdicts
<1>6. CASE /\ authority = "authoritative" /\ runs[r].version = req.expected
           /\ call' = [call EXCEPT ![c].pc = "write", ![c].run = r, ![c].held = {r}]
  <2> DEFINE y == [x EXCEPT !.pc = "write", !.run = r, !.held = {r}, !.lease = None]
  <2>1. /\ y.req = req /\ y.held = {r} /\ y.run = r /\ y.lease = None
    BY <1>1 DEF Calls
  <2>2. call' = [call EXCEPT ![c] = y]
    <3>1. y = [x EXCEPT !.pc = "write", !.run = r, !.held = {r}]
      BY <1>1, <1>2 DEF Calls
    <3> QED BY <1>1, <1>6, <3>1
  <2>3. req.status \in Follows[runs[r].status]
    BY <1>1, <1>6 DEF Stands, DecidedOn
  <2>4. req.op = "commit_with_lease" =>
          /\ leases[r] # None /\ ProofMatches(req.proof, leases[r])
          /\ leases[r].released = None /\ runs[r].status \in Workable
    BY <1>6, AuthorityFacts DEF Verdicts
  <2>5. RowStands(y, now, runs[r], leases[r])
    <3> HIDE DEF y
    <3> QED BY <1>1, <1>2, <1>6, <2>1, <2>3, <2>4 DEF RowStands, CommitStands, IsCommit
  <2> QED BY <1>1, <1>2, <2>2, <2>5, TakeRowStep
<1> QED BY <1>3, <1>4, <1>5, <1>6
-----------------------------------------------------------------------------
(***************************************************************************)
(* Commits.                                                                *)
(***************************************************************************)
\* The four things a transaction can have sent.
Grants(x) == x.req.op = "claim" /\ x.lease # None
Declines(x) == x.req.op = "claim" /\ x.lease = None
Mutates(x) == x.req.op \in {"renew", "release"}

\* What a transaction that has sent its COMMIT relies on, by what it does.
LEMMA SentFacts ==
  ASSUME LeaseInv, NEW x \in Calls, x.pc = "sent", Rely(x)
  PROVE  /\ x.req \in Requests
         /\ Grants(x) \/ Declines(x) \/ Mutates(x) \/ IsCommit(x.req)
         /\ x.req.op = "claim" => /\ x.req \in ClaimRequest /\ x.req.claim \in Claims
                                  /\ receipts[x.req.claim] = None
                                  /\ ~IsCommit(x.req)
         /\ Declines(x) => GivenBut({}, runs, leases)
         /\ Grants(x) => /\ x.run \in Runs /\ x.run \in x.held
                         /\ ClaimStands(x, now, runs[x.run], leases[x.run])
                         /\ x.lease \in Lease
         /\ Mutates(x) => /\ x.run \in Runs /\ x.run \in x.held /\ ~IsCommit(x.req)
                          /\ MutationStands(x, now, runs[x.run], leases[x.run])
                          /\ x.lease \in Lease
         /\ IsCommit(x.req) => /\ x.run \in Runs /\ x.run \in x.held
                               /\ CommitStands(x, runs[x.run], leases[x.run])
                               /\ x.req.op # "claim" /\ x.req.command \in Commands
                               /\ done[x.req.command] = None
<1>1. /\ Shaped(x) /\ Stands(x, now, runs, leases, receipts, done)
      /\ x.lease \in Lease \cup {None}
  BY CallFacts DEF Rely
<1>2. x.req \in Requests /\ x.req.op # "get_authority"
  BY <1>1 DEF Shaped, WritePhases
<1>3. Grants(x) \/ Declines(x) \/ Mutates(x) \/ IsCommit(x.req)
  BY <1>2, RequestFacts DEF Grants, Declines, Mutates, IsCommit
<1>4. x.req.op = "claim" => /\ x.req \in ClaimRequest /\ x.req.claim \in Claims
                            /\ receipts[x.req.claim] = None
                            /\ ~IsCommit(x.req)
  <2>1. x.req.op = "claim" => x.req \in ClaimRequest
    BY <1>2, RequestFacts
  <2>2. x.req.op = "claim" => receipts[x.req.claim] = None
    BY <1>1 DEF Stands, WritePhases
  <2> QED BY <2>1, <2>2 DEF ClaimRequest, IsCommit
<1>5. Declines(x) => GivenBut({}, runs, leases)
  BY <1>1 DEF Stands, WritePhases, Declines
<1>6. ASSUME Grants(x) \/ Mutates(x) \/ IsCommit(x.req)
      PROVE  x.run \in Runs /\ x.run \in x.held /\ RowStands(x, now, runs[x.run], leases[x.run])
  <2>1. x.lease # None \/ IsCommit(x.req)
    BY <1>1, <1>6 DEF Shaped, WritePhases, Grants, Mutates
  <2>2. RowStands(x, now, runs[x.run], leases[x.run])
    BY <1>1, <2>1 DEF Stands, HasRow, WritePhases
  <2> QED BY <2>2 DEF RowStands
<1>7. Grants(x) => /\ x.run \in Runs /\ x.run \in x.held
                   /\ ClaimStands(x, now, runs[x.run], leases[x.run])
                   /\ x.lease \in Lease
  BY <1>1, <1>6 DEF Grants, RowStands
<1>8. Mutates(x) => /\ x.run \in Runs /\ x.run \in x.held /\ ~IsCommit(x.req)
                    /\ MutationStands(x, now, runs[x.run], leases[x.run])
                    /\ x.lease \in Lease
  BY <1>1, <1>6 DEF Mutates, RowStands, MutationStands, IsCommit
<1>9. IsCommit(x.req) => /\ x.run \in Runs /\ x.run \in x.held
                         /\ CommitStands(x, runs[x.run], leases[x.run])
                         /\ x.req.op # "claim" /\ x.req.command \in Commands
                         /\ done[x.req.command] = None
  BY <1>1, <1>2, <1>6, RequestFacts DEF RowStands, IsCommit, Stands, WritePhases
<1> QED BY <1>2, <1>3, <1>4, <1>5, <1>7, <1>8, <1>9

\* What Apply does, in each of the four cases.
LEMMA ApplyEffects ==
  ASSUME LeaseInv, NEW x \in Calls, x.pc = "sent", Rely(x), Apply(x)
  PROVE  /\ Grants(x) =>
              /\ leases' = [leases EXCEPT ![x.run] = x.lease]
              /\ receipts' = [receipts EXCEPT ![x.req.claim] = ClaimedReceipt(x.req, x.run, x.lease)]
              /\ runs' = runs /\ done' = done
         /\ Declines(x) =>
              /\ receipts' = [receipts EXCEPT ![x.req.claim] = NoWorkReceipt(x.req)]
              /\ leases' = leases /\ runs' = runs /\ done' = done
         /\ Mutates(x) =>
              /\ leases' = [leases EXCEPT ![x.run] = x.lease]
              /\ receipts' = receipts /\ runs' = runs /\ done' = done
         /\ IsCommit(x.req) =>
              /\ runs' = [runs EXCEPT ![x.run] = [status  |-> x.req.status,
                                                  version |-> x.req.expected + 1]]
              /\ done' = [done EXCEPT ![x.req.command] =
                            [run |-> x.req.run, status |-> x.req.status,
                             version |-> x.req.expected + 1, attempt |-> AttemptOf(x.req)]]
              /\ leases' = leases /\ receipts' = receipts
<1>1. CASE Grants(x)
  BY <1>1, SentFacts DEF Apply, Grants, Declines, Mutates
<1>2. CASE Declines(x)
  BY <1>2, SentFacts DEF Apply, Grants, Declines, Mutates
<1>3. CASE Mutates(x)
  BY <1>3, SentFacts, RowsAssumption DEF Apply, Grants, Declines, Mutates
<1>4. CASE IsCommit(x.req)
  BY <1>4, SentFacts DEF Apply, Grants, Declines, Mutates, CommitStands, IsCommit
<1> QED BY <1>1, <1>2, <1>3, <1>4

\* What a commit of x does to the tables, as others see it: runs move on as the
\* aggregate admits, nothing is taken back, and it changes what x has locked only.
StoreGoesOn(x) ==
  /\ \A r \in Runs : \/ runs'[r] = runs[r]
                     \/ /\ runs'[r].version = runs[r].version + 1
                        /\ runs'[r].status \in Follows[runs[r].status]
  /\ \A r \in Runs : leases[r] # None => leases'[r] # None
  /\ \A k \in Claims : receipts[k] # None => receipts'[k] = receipts[k]
  /\ \A r \in Runs \ x.held : runs'[r] = runs[r] /\ leases'[r] = leases[r]
  /\ \A k \in Claims : ~HoldsReceiptKey(x, k) => receipts'[k] = receipts[k]
  /\ \A q \in Commands : ~HoldsCommandKey(x, q) => done'[q] = done[q]

StoreTyped ==
  /\ runs \in [Runs -> Run]
  /\ leases \in [Runs -> Lease \cup {None}]
  /\ receipts \in [Claims -> Receipt \cup {None}]
  /\ done \in [Commands -> CommandReceipt \cup {None}]

\* A commit of x is such a change, and leaves tables of their shape.
LEMMA ApplyGoesOn ==
  ASSUME LeaseInv, NEW x \in Calls, x.pc = "sent", Rely(x), Apply(x)
  PROVE  StoreTyped' /\ StoreGoesOn(x)
<1>1. StoreTyped
  BY DEF LeaseInv, LeaseTypeOK, StoreTyped
<1>2. CASE Grants(x)
  <2>1. /\ x.run \in Runs /\ x.run \in x.held /\ x.lease \in Lease /\ x.lease # None
        /\ x.req \in ClaimRequest /\ x.req.claim \in Claims /\ receipts[x.req.claim] = None
    BY <1>2, SentFacts DEF Grants
  <2>2. /\ leases' = [leases EXCEPT ![x.run] = x.lease]
        /\ receipts' = [receipts EXCEPT ![x.req.claim] = ClaimedReceipt(x.req, x.run, x.lease)]
        /\ runs' = runs /\ done' = done
    BY <1>2, ApplyEffects
  <2>3. ClaimedReceipt(x.req, x.run, x.lease) \in Receipt
    BY <2>1, ReceiptFacts
  <2>4. HoldsReceiptKey(x, x.req.claim)
    BY <1>2 DEF HoldsReceiptKey, Grants
  <2>5. StoreTyped'
    BY <1>1, <2>1, <2>2, <2>3 DEF StoreTyped
  <2> QED BY <1>1, <2>1, <2>2, <2>4, <2>5 DEF StoreGoesOn, StoreTyped
<1>3. CASE Declines(x)
  <2>1. x.req \in ClaimRequest /\ x.req.claim \in Claims /\ receipts[x.req.claim] = None
    BY <1>3, SentFacts DEF Declines
  <2>2. /\ receipts' = [receipts EXCEPT ![x.req.claim] = NoWorkReceipt(x.req)]
        /\ leases' = leases /\ runs' = runs /\ done' = done
    BY <1>3, ApplyEffects
  <2>3. NoWorkReceipt(x.req) \in Receipt
    BY <2>1, ReceiptFacts
  <2>4. HoldsReceiptKey(x, x.req.claim)
    BY <1>3 DEF HoldsReceiptKey, Declines
  <2>5. StoreTyped'
    BY <1>1, <2>1, <2>2, <2>3 DEF StoreTyped
  <2> QED BY <1>1, <2>1, <2>2, <2>4, <2>5 DEF StoreGoesOn, StoreTyped
<1>4. CASE Mutates(x)
  <2>1. x.run \in Runs /\ x.run \in x.held /\ x.lease \in Lease /\ x.lease # None
    BY <1>4, SentFacts, RowsAssumption
  <2>2. /\ leases' = [leases EXCEPT ![x.run] = x.lease]
        /\ receipts' = receipts /\ runs' = runs /\ done' = done
    BY <1>4, ApplyEffects
  <2> QED BY <1>1, <2>1, <2>2 DEF StoreGoesOn, StoreTyped
<1>5. CASE IsCommit(x.req)
  <2>1. /\ x.run \in Runs /\ x.run \in x.held /\ x.req.command \in Commands
        /\ CommitStands(x, runs[x.run], leases[x.run]) /\ done[x.req.command] = None
        /\ x.req \in Requests
    BY <1>5, SentFacts
  <2>2. /\ x.req.status \in RunStatuses /\ x.req.expected + 1 \in Nat /\ x.req.run \in Runs
        /\ AttemptOf(x.req) \in Nat
    BY <1>5, <2>1, RequestFacts DEF AttemptOf, Proof
  <2>3. /\ runs' = [runs EXCEPT ![x.run] = [status  |-> x.req.status,
                                            version |-> x.req.expected + 1]]
        /\ done' = [done EXCEPT ![x.req.command] =
                      [run |-> x.req.run, status |-> x.req.status,
                       version |-> x.req.expected + 1, attempt |-> AttemptOf(x.req)]]
        /\ leases' = leases /\ receipts' = receipts
    BY <1>5, ApplyEffects
  <2>4. [status |-> x.req.status, version |-> x.req.expected + 1] \in Run
    BY <2>2 DEF Run
  <2>5. [run |-> x.req.run, status |-> x.req.status,
         version |-> x.req.expected + 1, attempt |-> AttemptOf(x.req)] \in CommandReceipt
    BY <2>2 DEF CommandReceipt
  <2>6. StoreTyped'
    BY <1>1, <2>1, <2>3, <2>4, <2>5 DEF StoreTyped
  <2>7. /\ runs'[x.run].version = runs[x.run].version + 1
        /\ runs'[x.run].status \in Follows[runs[x.run].status]
    BY <1>1, <2>1, <2>3 DEF CommitStands, StoreTyped
  <2>8. HoldsCommandKey(x, x.req.command)
    BY <1>5 DEF HoldsCommandKey
  <2> QED BY <1>1, <2>1, <2>3, <2>6, <2>7, <2>8 DEF StoreGoesOn, StoreTyped
<1> QED BY <1>2, <1>3, <1>4, <1>5, SentFacts

\* A run that is queued always was.
LEMMA QueuedBefore ==
  ASSUME NEW x, StoreGoesOn(x), NEW r \in Runs, runs \in [Runs -> Run],
         runs'[r].status = "queued"
  PROVE  runs[r].status = "queued"
BY DEF StoreGoesOn, Run, RunStatuses, Follows

\* A queued run that was given to somebody stays so.
LEMMA GivenStays ==
  ASSUME NEW x, StoreGoesOn(x), runs \in [Runs -> Run], NEW S, GivenBut(S, runs, leases)
  PROVE  GivenBut(S, runs', leases')
BY QueuedBefore DEF GivenBut, StoreGoesOn

\* What others rely on survives a commit of x.
LEMMA StandsSurvives ==
  ASSUME LeaseInv, NEW x, StoreGoesOn(x), now' = now,
         NEW y \in Calls, Shaped(y), Stands(y, now, runs, leases, receipts, done), Apart(x, y)
  PROVE  Stands(y, now', runs', leases', receipts', done')
<1>1. StoreTyped
  BY DEF LeaseInv, LeaseTypeOK, StoreTyped
<1>2. HasRow(y) => RowStands(y, now', runs'[y.run], leases'[y.run])
  <2> SUFFICES ASSUME HasRow(y)
               PROVE  RowStands(y, now', runs'[y.run], leases'[y.run])
    OBVIOUS
  <2>1. RowStands(y, now, runs[y.run], leases[y.run])
    BY DEF Stands
  <2>2. y.run \in Runs \ x.held
    BY <2>1 DEF RowStands, Apart
  <2> QED BY <2>1, <2>2 DEF StoreGoesOn
<1>3. \A S : GivenBut(S, runs, leases) => GivenBut(S, runs', leases')
  BY <1>1, GivenStays DEF StoreTyped
<1>4. y.pc # "idle" /\ y.req.op = "claim" => y.req.claim \in Claims
  BY RequestFacts DEF Shaped, ClaimRequest
<1>5. y.pc \in {"race", "reload", "replay"} => receipts'[y.req.claim] # None
  BY <1>4 DEF Stands, StoreGoesOn, Shaped, ClaimPhases
<1>6. (y.pc \in WritePhases /\ y.req.op = "claim") => receipts'[y.req.claim] = None
  <2> SUFFICES ASSUME y.pc \in WritePhases, y.req.op = "claim"
               PROVE  receipts'[y.req.claim] = None
    OBVIOUS
  <2>1. HoldsReceiptKey(y, y.req.claim) /\ y.req.claim \in Claims
    BY <1>4 DEF HoldsReceiptKey, WritePhases
  <2>2. ~HoldsReceiptKey(x, y.req.claim)
    BY <2>1 DEF Apart
  <2> QED BY <2>1, <2>2 DEF StoreGoesOn, Stands
<1>7. y.pc # "idle" /\ IsCommit(y.req)
        => /\ y.req.command \in Commands /\ y.req.run \in Runs /\ y.req.expected \in Nat
  BY RequestFacts DEF Shaped
<1>8. (y.pc \in {"lock"} \cup WritePhases /\ IsCommit(y.req)) => done'[y.req.command] = None
  <2> SUFFICES ASSUME y.pc \in {"lock"} \cup WritePhases, IsCommit(y.req)
               PROVE  done'[y.req.command] = None
    OBVIOUS
  <2>1. HoldsCommandKey(y, y.req.command) /\ y.req.command \in Commands
    BY <1>7 DEF HoldsCommandKey, WritePhases
  <2>2. ~HoldsCommandKey(x, y.req.command)
    BY <2>1 DEF Apart
  <2> QED BY <2>1, <2>2 DEF StoreGoesOn, Stands
<1>9. (y.pc # "idle" /\ IsCommit(y.req)) => DecidedOn(y.req, runs'[y.req.run])
  <2> SUFFICES ASSUME y.pc # "idle", IsCommit(y.req)
               PROVE  DecidedOn(y.req, runs'[y.req.run])
    OBVIOUS
  <2>1. DecidedOn(y.req, runs[y.req.run]) /\ y.req.run \in Runs /\ y.req.expected \in Nat
        /\ runs[y.req.run].version \in Nat
    BY <1>1, <1>7 DEF Stands, StoreTyped, Run
  <2> QED BY <2>1 DEF StoreGoesOn, DecidedOn
<1> QED BY <1>2, <1>3, <1>5, <1>6, <1>8, <1>9 DEF Stands

\* The parts of ClaimsAreHonest.
LeaseIsTold(r) ==
  leases[r] # None =>
    LET k == leases[r].claim
    IN /\ Granted(k)
       /\ receipts[k].run = r
       /\ ProofMatches(ProofOf(k, receipts[k]), leases[r])
       /\ \A a \in 1 .. leases[r].attempt :
            \E j \in Claims : Granted(j) /\ receipts[j].run = r /\ receipts[j].attempt = a

GrantsDiffer(j, k) ==
  (Granted(j) /\ Granted(k) /\ receipts[j].run = receipts[k].run
     /\ receipts[j].attempt = receipts[k].attempt) => j = k

GrantIsOver(k) ==
  Granted(k) => /\ leases[receipts[k].run] # None
                /\ receipts[k].attempt <= leases[receipts[k].run].attempt

\* ClaimsAreHonest is the conjunction of its parts.
LEMMA HonestParts ==
  ClaimsAreHonest <=> /\ \A r \in Runs : LeaseIsTold(r)
                      /\ \A j, k \in Claims : GrantsDiffer(j, k)
                      /\ \A k \in Claims : GrantIsOver(k)
BY DEF ClaimsAreHonest, LeaseIsTold, GrantsDiffer, GrantIsOver

\* A grant is told by the receipt of its claim, and its attempt is a new one.
LEMMA GrantIsHonest ==
  ASSUME LeaseInv, NEW x \in Calls, x.pc = "sent", Rely(x), Apply(x), Grants(x)
  PROVE  ClaimsAreHonest'
<1> DEFINE k0 == x.req.claim
           r0 == x.run
           old == leases[r0]
           new == x.lease
           receipt == ClaimedReceipt(x.req, r0, new)
<1>1. /\ r0 \in Runs /\ new \in Lease /\ new # None /\ x.req \in ClaimRequest
      /\ k0 \in Claims /\ receipts[k0] = None
      /\ ClaimStands(x, now, runs[r0], old)
  BY SentFacts DEF Grants
<1>2. /\ leases \in [Runs -> Lease \cup {None}] /\ receipts \in [Claims -> Receipt \cup {None}]
      /\ now \in Nat /\ old \in Lease \cup {None}
  BY <1>1 DEF LeaseInv, LeaseTypeOK
<1>3. leases' = [leases EXCEPT ![r0] = new] /\ receipts' = [receipts EXCEPT ![k0] = receipt]
  BY ApplyEffects
<1>4. PICK at \in 0 .. now, token \in Tokens : new = NextLease(old, x.req, token, at)
  BY <1>1 DEF ClaimStands
<1>5. /\ new.worker = x.req.worker /\ new.claim = k0
      /\ new.attempt = (IF old = None THEN 1 ELSE old.attempt + 1)
  BY <1>4 DEF NextLease
<1>6. /\ receipt \in Receipt /\ receipt # None /\ receipt.outcome = "claimed"
      /\ receipt.run = r0 /\ receipt.worker = x.req.worker
      /\ receipt.attempt = new.attempt /\ receipt.token = new.token
  BY <1>1, ReceiptFacts, RowsAssumption
<1>7. old # None => old.attempt \in Nat
  BY <1>2 DEF Lease
<1> HIDE DEF new, receipt
<1>8. /\ leases'[r0] = new /\ receipts'[k0] = receipt
      /\ \A r \in Runs \ {r0} : leases'[r] = leases[r]
      /\ \A k \in Claims \ {k0} : receipts'[k] = receipts[k]
  BY <1>1, <1>2, <1>3
<1>9. /\ Granted(k0)' /\ ~Granted(k0)
      /\ \A k \in Claims : k # k0 => (Granted(k)' <=> Granted(k))
  BY <1>1, <1>6, <1>8 DEF Granted
<1>10. /\ \A r \in Runs : LeaseIsTold(r)
       /\ \A j, k \in Claims : GrantsDiffer(j, k)
       /\ \A k \in Claims : GrantIsOver(k)
  BY HonestParts DEF LeaseInv
<1>11. \A k \in Claims : Granted(k) => receipts[k].attempt \in Nat /\ receipts[k].run \in Runs
  BY <1>2, ClaimedFacts DEF Granted
<1>12. ASSUME NEW r \in Runs, r # r0
       PROVE  LeaseIsTold(r)'
  <2>1. leases'[r] = leases[r] /\ LeaseIsTold(r)
    BY <1>8, <1>10, <1>12
  <2>2. leases[r] # None => leases[r].claim \in Claims
    BY <1>2 DEF Lease
  <2>3. \A j \in Claims : Granted(j) => Granted(j)' /\ receipts'[j] = receipts[j]
    BY <1>8, <1>9
  <2> QED BY <2>1, <2>2, <2>3 DEF LeaseIsTold
<1>13. LeaseIsTold(r0)'
  <2>1. Granted(k0)' /\ receipts'[k0].run = r0
    BY <1>6, <1>8, <1>9
  <2>2. ProofMatches(ProofOf(k0, receipts'[k0]), leases'[r0])
    BY <1>5, <1>6, <1>8 DEF ProofMatches, ProofOf
  <2>3. \A a \in 1 .. new.attempt :
          \E j \in Claims : Granted(j)' /\ receipts'[j].run = r0 /\ receipts'[j].attempt = a
    <3> SUFFICES ASSUME NEW a \in 1 .. new.attempt
                 PROVE  \E j \in Claims : Granted(j)' /\ receipts'[j].run = r0
                                            /\ receipts'[j].attempt = a
      OBVIOUS
    <3>1. CASE a = new.attempt
      BY <1>1, <1>6, <1>8, <1>9, <3>1
    <3>2. CASE a # new.attempt
      <4>1. old # None /\ a \in 1 .. old.attempt
        BY <1>5, <1>7, <3>2
      <4>2. PICK j \in Claims : Granted(j) /\ receipts[j].run = r0 /\ receipts[j].attempt = a
        BY <1>1, <1>10, <4>1 DEF LeaseIsTold
      <4> QED BY <1>8, <1>9, <4>2
    <3> QED BY <3>1, <3>2
  <2> QED BY <1>5, <1>8, <2>1, <2>2, <2>3 DEF LeaseIsTold
<1>14. \A k \in Claims : Granted(k) /\ receipts[k].run = r0 => receipts[k].attempt < new.attempt
  BY <1>5, <1>7, <1>10, <1>11 DEF GrantIsOver
<1>15. new.attempt \in Nat
  BY <1>1 DEF Lease
<1>16. \A j, k \in Claims : GrantsDiffer(j, k)'
  <2> SUFFICES ASSUME NEW j \in Claims, NEW k \in Claims, Granted(j)', Granted(k)',
                      receipts'[j].run = receipts'[k].run,
                      receipts'[j].attempt = receipts'[k].attempt
               PROVE  j = k
    BY DEF GrantsDiffer
  <2>1. CASE j # k0 /\ k # k0
    BY <1>8, <1>9, <1>10, <2>1 DEF GrantsDiffer
  <2>2. CASE j = k0 /\ k # k0
    BY <1>6, <1>8, <1>9, <1>11, <1>14, <1>15, <2>2
  <2>3. CASE j # k0 /\ k = k0
    BY <1>6, <1>8, <1>9, <1>11, <1>14, <1>15, <2>3
  <2> QED BY <2>1, <2>2, <2>3
<1>17. ASSUME NEW k \in Claims
       PROVE  GrantIsOver(k)'
  <2>1. CASE k = k0
    BY <1>1, <1>6, <1>8, <1>15, <2>1 DEF GrantIsOver
  <2>2. CASE k # k0
    <3> SUFFICES ASSUME Granted(k)
                 PROVE  /\ leases'[receipts[k].run] # None
                        /\ receipts[k].attempt <= leases'[receipts[k].run].attempt
      BY <1>8, <1>9, <2>2 DEF GrantIsOver
    <3>1. receipts[k].run \in Runs /\ receipts[k].attempt \in Nat
      BY <1>11
    <3>2. CASE receipts[k].run = r0
      BY <1>1, <1>8, <1>14, <1>15, <3>1, <3>2
    <3>3. CASE receipts[k].run # r0
      BY <1>8, <1>10, <3>1, <3>3 DEF GrantIsOver
    <3> QED BY <3>2, <3>3
  <2> QED BY <2>1, <2>2
<1> QED BY <1>12, <1>13, <1>16, <1>17, HonestParts DEF ClaimsAreHonest, LeaseIsTold,
        GrantsDiffer, GrantIsOver

\* Every commit keeps leases and receipts in one story, and records what it moved.
LEMMA ApplyIsHonest ==
  ASSUME LeaseInv, NEW x \in Calls, x.pc = "sent", Rely(x), Apply(x)
  PROVE  ClaimsAreHonest' /\ RecordsOK'
<1>1. StoreTyped /\ StoreTyped' /\ StoreGoesOn(x)
  BY ApplyGoesOn DEF LeaseInv, LeaseTypeOK, StoreTyped
<1>2. /\ \A r \in Runs : LeaseIsTold(r)
      /\ \A j, k \in Claims : GrantsDiffer(j, k)
      /\ \A k \in Claims : GrantIsOver(k)
  BY HonestParts DEF LeaseInv
<1>3. ClaimsAreHonest'
  <2>1. CASE Grants(x)
    BY <2>1, GrantIsHonest
  <2>2. CASE Declines(x)
    <3>1. /\ leases' = leases /\ x.req.claim \in Claims /\ receipts[x.req.claim] = None
          /\ receipts' = [receipts EXCEPT ![x.req.claim] = NoWorkReceipt(x.req)]
          /\ NoWorkReceipt(x.req).outcome = "no_work"
      BY <2>2, ApplyEffects, SentFacts, ReceiptFacts DEF Declines
    <3>2. \A k \in Claims : /\ Granted(k)' <=> Granted(k)
                            /\ Granted(k) => receipts'[k] = receipts[k]
      BY <1>1, <3>1 DEF Granted, StoreTyped
    <3>3. \A r \in Runs : leases[r] # None => leases[r].claim \in Claims
      BY <1>1 DEF StoreTyped, Lease
    <3>4. \A r \in Runs : LeaseIsTold(r)'
      BY <1>2, <3>1, <3>2, <3>3 DEF LeaseIsTold
    <3>5. \A j, k \in Claims : GrantsDiffer(j, k)'
      BY <1>2, <3>2 DEF GrantsDiffer
    <3>6. \A k \in Claims : GrantIsOver(k)'
      BY <1>2, <3>1, <3>2 DEF GrantIsOver
    <3> QED BY <3>4, <3>5, <3>6 DEF ClaimsAreHonest, LeaseIsTold, GrantsDiffer, GrantIsOver
  <2>3. CASE Mutates(x)
    <3>1. /\ receipts' = receipts /\ leases' = [leases EXCEPT ![x.run] = x.lease]
          /\ x.run \in Runs /\ x.lease \in Lease /\ leases[x.run] \in Lease
          /\ MutationStands(x, now, runs[x.run], leases[x.run]) /\ x.req \in Requests
      BY <1>1, <2>3, ApplyEffects, SentFacts DEF MutationStands, StoreTyped
    <3>2. /\ x.lease.worker = leases[x.run].worker /\ x.lease.claim = leases[x.run].claim
          /\ x.lease.attempt = leases[x.run].attempt /\ x.lease.token = leases[x.run].token
      <4>1. PICK at \in 0 .. now :
              \/ x.req.op = "renew" /\ x.lease = RenewedLease(leases[x.run], x.req.duration, at)
              \/ x.req.op = "release" /\ x.lease = ReleasedLease(leases[x.run], at)
        BY <3>1 DEF MutationStands
      <4>2. at \in Nat
        BY DEF LeaseInv, LeaseTypeOK
      <4>3. x.req.op = "renew" => x.req.duration \in Durations
        BY <3>1, RequestFacts DEF RenewRequest
      <4> QED BY <3>1, <4>1, <4>2, <4>3, RenewedLeaseFacts, ReleasedLeaseFacts
    <3>3. \A k \in Claims : Granted(k)' <=> Granted(k)
      BY <3>1 DEF Granted
    <3>4. \A r \in Runs : /\ leases'[r] # None <=> leases[r] # None
                          /\ leases[r] # None =>
                               /\ leases'[r].worker = leases[r].worker
                               /\ leases'[r].claim = leases[r].claim
                               /\ leases'[r].attempt = leases[r].attempt
                               /\ leases'[r].token = leases[r].token
      BY <1>1, <3>1, <3>2, RowsAssumption DEF StoreTyped
    <3>5. \A r \in Runs : leases[r] # None => leases[r].claim \in Claims
      BY <1>1 DEF StoreTyped, Lease
    <3>6. \A r \in Runs : LeaseIsTold(r)'
      BY <1>2, <3>1, <3>3, <3>4, <3>5 DEF LeaseIsTold, ProofMatches
    <3>7. \A j, k \in Claims : GrantsDiffer(j, k)'
      BY <1>2, <3>1, <3>3 DEF GrantsDiffer
    <3>8. \A k \in Claims : GrantIsOver(k)'
      <4>1. \A k \in Claims : Granted(k) => receipts[k].run \in Runs
        BY <1>1, ClaimedFacts DEF Granted, StoreTyped
      <4> QED BY <1>2, <3>1, <3>3, <3>4, <4>1 DEF GrantIsOver
    <3> QED BY <3>6, <3>7, <3>8 DEF ClaimsAreHonest, LeaseIsTold, GrantsDiffer, GrantIsOver
  <2>4. CASE IsCommit(x.req)
    <3>1. leases' = leases /\ receipts' = receipts
      BY <2>4, ApplyEffects
    <3> QED BY <3>1 DEF LeaseInv, ClaimsAreHonest, Granted
  <2> QED BY <2>1, <2>2, <2>3, <2>4, SentFacts
<1>4. RecordsOK'
  <2> SUFFICES ASSUME NEW q \in Commands, done'[q] # None
               PROVE  /\ done'[q].version \in Nat \ {0}
                      /\ done'[q].version <= runs'[done'[q].run].version
    BY DEF RecordsOK
  <2>1. CASE done'[q] = done[q]
    <3>1. done[q].version \in Nat \ {0} /\ done[q].version <= runs[done[q].run].version
      BY <2>1 DEF LeaseInv, RecordsOK
    <3>2. done[q].run \in Runs
      BY <1>1, <2>1 DEF StoreTyped, CommandReceipt
    <3>3. runs[done[q].run].version \in Nat
      BY <1>1, <3>2 DEF StoreTyped, Run
    <3>4. runs'[done[q].run].version \in {runs[done[q].run].version, runs[done[q].run].version + 1}
      BY <1>1, <3>2 DEF StoreGoesOn
    <3> QED BY <2>1, <3>1, <3>3, <3>4
  <2>2. CASE done'[q] # done[q]
    <3>1. HoldsCommandKey(x, q)
      BY <1>1, <2>2 DEF StoreGoesOn
    <3>2. IsCommit(x.req) /\ x.req.command = q
      BY <3>1 DEF HoldsCommandKey
    <3>3. /\ x.run \in Runs /\ CommitStands(x, runs[x.run], leases[x.run]) /\ x.req \in Requests
      BY <3>2, SentFacts
    <3>4. x.run = x.req.run /\ x.req.expected \in Nat
      BY <3>2, <3>3, RequestFacts DEF CommitStands
    <3>5. /\ runs' = [runs EXCEPT ![x.run] = [status  |-> x.req.status,
                                              version |-> x.req.expected + 1]]
          /\ done' = [done EXCEPT ![q] =
                        [run |-> x.req.run, status |-> x.req.status,
                         version |-> x.req.expected + 1, attempt |-> AttemptOf(x.req)]]
      BY <3>2, ApplyEffects
    <3>6. runs'[x.run].version = x.req.expected + 1
      BY <1>1, <3>3, <3>5 DEF StoreTyped
    <3>7. done'[q].version = x.req.expected + 1 /\ done'[q].run = x.req.run
      BY <1>1, <3>5 DEF StoreTyped
    <3> QED BY <3>4, <3>6, <3>7
  <2> QED BY <2>1, <2>2
<1> QED BY <1>3, <1>4
-----------------------------------------------------------------------------
(***************************************************************************)
(* Steps that change the tables, the clock or the transactions left behind. *)
(***************************************************************************)
StandsNext(x) == Shaped(x) /\ Stands(x, now', runs', leases', receipts', done')

\* The invariant, put together from its parts.
LEMMA InvHolds ==
  ASSUME now' \in Nat, StoreTyped', ClaimsAreHonest', RecordsOK',
         call' \in [Callers -> Calls], orphans' \subseteq Calls,
         \A c \in Callers : StandsNext(call'[c]),
         \A o \in orphans' : o.pc = "sent" /\ StandsNext(o),
         \A c, d \in Callers : c # d => Apart(call'[c], call'[d]),
         \A c \in Callers : \A o \in orphans' : Apart(call'[c], o),
         \A o, p \in orphans' : o # p => Apart(o, p),
         \A c \in Callers : ReplyStored(call'[c].reply, receipts')
  PROVE  LeaseInv'
<1>1. TransactionsOK'
  BY DEF TransactionsOK, Rely, StandsNext
<1>2. ClaimRepliesAreStored'
  BY DEF ClaimRepliesAreStored, ReplyStored
<1>3. LeaseTypeOK'
  <2>1. \A c \in Callers : RowClause(call'[c])
    BY RowsAreAllowed DEF StandsNext, StoreTyped
  <2>2. \A o \in orphans' : RowClause(o)
    BY RowsAreAllowed DEF StandsNext, StoreTyped
  <2>3. \A x \in {call'[c] : c \in Callers} \cup orphans' :
          /\ x.pc \in {"recheck", "store", "receipt"} => x.run \in x.held
          /\ x.pc \in {"write", "sent"} /\ (x.lease # None \/ IsCommit(x.req))
               => x.run \in x.held /\ (x.lease # None => RowAllowed(x.lease))
    BY <2>1, <2>2 DEF RowClause, WritePhases
  <2> QED BY <2>3 DEF LeaseTypeOK, StoreTyped
<1> QED BY <1>1, <1>2, <1>3 DEF LeaseInv

\* The parts of the invariant, for every call and everything left behind.
LEMMA AllFacts ==
  ASSUME LeaseInv
  PROVE  /\ now \in Nat /\ StoreTyped /\ call \in [Callers -> Calls] /\ orphans \subseteq Calls
         /\ \A c \in Callers : Shaped(call[c])
                               /\ Stands(call[c], now, runs, leases, receipts, done)
         /\ \A o \in orphans : /\ o.pc = "sent" /\ o \in Calls /\ Rely(o)
                               /\ Shaped(o) /\ Stands(o, now, runs, leases, receipts, done)
         /\ \A c, d \in Callers : c # d => Apart(call[c], call[d])
         /\ \A c \in Callers : \A o \in orphans : Apart(call[c], o) /\ Apart(o, call[c])
         /\ \A o, p \in orphans : o # p => Apart(o, p)
         /\ \A c \in Callers : ReplyStored(call[c].reply, receipts)
BY ApartSymmetric
   DEF LeaseInv, LeaseTypeOK, StoreTyped, TransactionsOK, Rely, ClaimRepliesAreStored, ReplyStored

Replies == [code : ReplyCodes, may_start : BOOLEAN, claim : Claims \cup {None},
            grant : {None} \cup GrantRecord]

\* A call at rest holds nothing and relies on nothing.
LEMMA RestFacts ==
  ASSUME NEW reply \in Replies \cup {None}
  PROVE  LET y == [AtRest EXCEPT !.reply = reply]
         IN /\ y \in Calls /\ y.reply = reply /\ Shaped(y)
            /\ \A t, rs, ls, cs, ds : Stands(y, t, rs, ls, cs, ds)
            /\ \A z : Apart(y, z) /\ Apart(z, y)
<1> DEFINE y == [AtRest EXCEPT !.reply = reply]
<1>1. y \in Calls
  BY DEF AtRest, Calls, GrantRecord, Replies
<1>2. y.pc = "idle" /\ y.held = {} /\ y.lease = None /\ y.reply = reply
  BY DEF AtRest
<1> HIDE DEF y
<1>3. Shaped(y)
  BY <1>2 DEF Shaped, ShortPhases, ClaimPhases, WritePhases
<1>4. \A t, rs, ls, cs, ds : Stands(y, t, rs, ls, cs, ds)
  BY <1>2 DEF Stands, HasRow, WritePhases
<1>5. \A z : Apart(y, z)
  BY <1>2, KeysByPhase DEF Apart, WritePhases
<1>6. \A z : Apart(z, y)
  BY <1>5, ApartSymmetric
<1> QED BY <1>1, <1>2, <1>3, <1>4, <1>5, <1>6 DEF y

\* What a call is answered is a reply, and answers a claim only if it was one.
LEMMA AnswerFacts ==
  ASSUME NEW req \in Requests, NEW code \in ReplyCodes, NEW may_start \in BOOLEAN,
         NEW grant \in {None} \cup GrantRecord
  PROVE  LET answer == Answer(req, code, may_start, grant)
         IN /\ answer \in Replies
            /\ answer.code = code /\ answer.grant = grant
            /\ answer.claim = IF req.op = "claim" THEN req.claim ELSE None
BY RequestFacts DEF Answer, ClaimRequest, Replies

\* What bystanders of a commit keep: everything.
LEMMA BystandersStand ==
  ASSUME LeaseInv, NEW x \in Calls, x.pc = "sent", Rely(x), Apply(x), now' = now
  PROVE  /\ StoreTyped' /\ ClaimsAreHonest' /\ RecordsOK'
         /\ \A c \in Callers : Apart(x, call[c]) => StandsNext(call[c])
         /\ \A o \in orphans : Apart(x, o) => StandsNext(o)
         /\ \A c \in Callers : ReplyStored(call[c].reply, receipts')
<1>1. StoreTyped' /\ StoreGoesOn(x) /\ ClaimsAreHonest' /\ RecordsOK'
  BY ApplyGoesOn, ApplyIsHonest
<1>2. \A c \in Callers : Apart(x, call[c]) => StandsNext(call[c])
  <2> SUFFICES ASSUME NEW c \in Callers, Apart(x, call[c])
               PROVE  StandsNext(call[c])
    OBVIOUS
  <2>1. call[c] \in Calls /\ Shaped(call[c]) /\ Stands(call[c], now, runs, leases, receipts, done)
    BY AllFacts
  <2> QED BY <1>1, <2>1, StandsSurvives DEF StandsNext
<1>3. \A o \in orphans : Apart(x, o) => StandsNext(o)
  <2> SUFFICES ASSUME NEW o \in orphans, Apart(x, o)
               PROVE  StandsNext(o)
    OBVIOUS
  <2>1. o \in Calls /\ Shaped(o) /\ Stands(o, now, runs, leases, receipts, done)
    BY AllFacts
  <2> QED BY <1>1, <2>1, StandsSurvives DEF StandsNext
<1>4. \A c \in Callers : ReplyStored(call[c].reply, receipts')
  <2> SUFFICES ASSUME NEW c \in Callers
               PROVE  ReplyStored(call[c].reply, receipts')
    OBVIOUS
  <2>1. ReplyStored(call[c].reply, receipts) /\ call[c] \in Calls
    BY AllFacts
  <2>2. call[c].reply # None => call[c].reply.claim \in Claims \cup {None}
    BY <2>1 DEF Calls
  <2> QED BY <1>1, <2>1, <2>2 DEF ReplyStored, StoreGoesOn
<1> QED BY <1>1, <1>2, <1>3, <1>4

\* What the answer to a completed call is, by what it sent.
LEMMA CompletedReply ==
  ASSUME LeaseInv, NEW c \in Callers, Complete(c)
  PROVE  \E reply \in Replies \cup {None} :
           /\ call' = [call EXCEPT ![c] = [AtRest EXCEPT !.reply = reply]]
           /\ ReplyStored(reply, receipts')
<1> DEFINE x == call[c]
<1>1. /\ x \in Calls /\ x.pc = "sent" /\ Rely(x) /\ Apply(x) /\ StoreTyped
  BY AllFacts DEF Complete, Rely
<1>2. x.req \in Requests
  BY <1>1, SentFacts
<1>3. ASSUME NEW code \in ReplyCodes, NEW may_start \in BOOLEAN,
             NEW grant \in {None} \cup GrantRecord, Reply(c, code, may_start, grant),
             ReplyStored(Answer(x.req, code, may_start, grant), receipts')
      PROVE  \E reply \in Replies \cup {None} :
               /\ call' = [call EXCEPT ![c] = [AtRest EXCEPT !.reply = reply]]
               /\ ReplyStored(reply, receipts')
  <2>1. Answer(x.req, code, may_start, grant) \in Replies
    BY <1>2, AnswerFacts
  <2>2. ReplyStored(None, receipts')
    BY DEF ReplyStored
  <2>3. CASE x.req.op \in Remembered
    BY <1>3, <2>1, <2>3 DEF Reply
  <2>4. CASE x.req.op \notin Remembered
    BY <1>3, <2>2, <2>4 DEF Reply
  <2> QED BY <2>3, <2>4
<1>4. CASE Declines(x)
  <2>1. Reply(c, "no_work", FALSE, None)
    BY <1>4 DEF Complete, Declines, Refuse, IsCommit
  <2>2. /\ receipts' = [receipts EXCEPT ![x.req.claim] = NoWorkReceipt(x.req)]
        /\ x.req.claim \in Claims /\ x.req \in ClaimRequest /\ x.req.op = "claim"
    BY <1>1, <1>4, ApplyEffects, SentFacts DEF Declines
  <2>3. NoWorkReceipt(x.req) # None /\ NoWorkReceipt(x.req).outcome = "no_work"
    BY <2>2, ReceiptFacts, RowsAssumption
  <2>4. receipts'[x.req.claim] = NoWorkReceipt(x.req)
    BY <1>1, <2>2 DEF StoreTyped
  <2>5. "no_work" \in ReplyCodes
    BY DEF ReplyCodes
  <2> DEFINE answer == Answer(x.req, "no_work", FALSE, None)
  <2>6. answer.code = "no_work" /\ answer.grant = None /\ answer.claim = x.req.claim
    BY <2>2 DEF Answer
  <2>7. ReplyStored(answer, receipts')
    <3> HIDE DEF answer
    <3> QED BY <2>2, <2>3, <2>4, <2>6 DEF ReplyStored
  <2> QED BY <1>3, <2>1, <2>5, <2>7
<1>5. CASE Grants(x)
  <2> DEFINE grant == GrantOfLease(x.run, x.lease)
             receipt == ClaimedReceipt(x.req, x.run, x.lease)
  <2>1. Reply(c, "claimed", TRUE, grant)
    BY <1>5 DEF Complete, Grants, IsCommit
  <2>2. /\ receipts' = [receipts EXCEPT ![x.req.claim] = receipt]
        /\ x.req.claim \in Claims /\ x.req \in ClaimRequest /\ x.req.op = "claim"
        /\ x.run \in Runs /\ x.lease \in Lease
    BY <1>1, <1>5, ApplyEffects, SentFacts DEF Grants
  <2>3. /\ receipt # None /\ receipt.outcome = "claimed"
        /\ receipt.run = x.run /\ receipt.attempt = x.lease.attempt
    BY <2>2, ReceiptFacts, RowsAssumption
  <2>4. receipts'[x.req.claim] = receipt
    BY <1>1, <2>2 DEF StoreTyped
  <2>5. "claimed" \in ReplyCodes
    BY DEF ReplyCodes
  <2>6. grant \in GrantRecord /\ grant.run = x.run /\ grant.attempt = x.lease.attempt
    BY <2>2 DEF GrantOfLease, GrantOf, GrantRecord, Lease
  <2> HIDE DEF grant, receipt
  <2>7. /\ Answer(x.req, "claimed", TRUE, grant).code = "claimed"
        /\ Answer(x.req, "claimed", TRUE, grant).grant = grant
        /\ Answer(x.req, "claimed", TRUE, grant).claim = x.req.claim
    BY <2>2 DEF Answer
  <2>8. ReplyStored(Answer(x.req, "claimed", TRUE, grant), receipts')
    BY <2>3, <2>4, <2>6, <2>7 DEF ReplyStored
  <2> QED BY <1>3, <2>1, <2>5, <2>6, <2>8
<1>6. ASSUME x.req.op # "claim", NEW code \in ReplyCodes, NEW may_start \in BOOLEAN,
             NEW grant \in {None} \cup GrantRecord
      PROVE  ReplyStored(Answer(x.req, code, may_start, grant), receipts')
  BY <1>2, <1>6, AnswerFacts DEF ReplyStored
<1>7. CASE Mutates(x)
  <2>1. x.run \in Runs /\ x.lease \in Lease /\ x.req.op # "claim"
    BY <1>1, <1>7, SentFacts DEF Mutates
  <2>2. GrantOfLease(x.run, x.lease) \in GrantRecord
    BY <2>1 DEF GrantOfLease, GrantOf, GrantRecord, Lease
  <2>3. "authoritative" \in ReplyCodes /\ "released" \in ReplyCodes
    BY DEF ReplyCodes
  <2>4. \/ Reply(c, "authoritative", TRUE, GrantOfLease(x.run, x.lease))
        \/ Reply(c, "released", FALSE, GrantOfLease(x.run, x.lease))
    BY <1>7 DEF Complete, Mutates, IsCommit
  <2> QED BY <1>3, <1>6, <2>1, <2>2, <2>3, <2>4
<1>8. CASE IsCommit(x.req)
  <2>1. x.req.op # "claim" /\ "committed" \in ReplyCodes
    BY <1>8 DEF IsCommit, ReplyCodes
  <2>2. Reply(c, "committed", FALSE, None)
    BY <1>8 DEF Complete, IsCommit, Refuse
  <2> QED BY <1>3, <1>6, <2>1, <2>2
<1> QED BY <1>1, <1>4, <1>5, <1>7, <1>8, SentFacts

\* COMMIT is acknowledged.
LEMMA CompleteStep ==
  ASSUME LeaseInv, NEW c \in Callers, Complete(c)
  PROVE  LeaseInv'
<1>1. /\ call[c] \in Calls /\ call[c].pc = "sent" /\ Rely(call[c]) /\ Apply(call[c])
      /\ now' = now /\ orphans' = orphans
  BY AllFacts DEF Complete, Rely
<1>2. PICK reply \in Replies \cup {None} :
        /\ call' = [call EXCEPT ![c] = [AtRest EXCEPT !.reply = reply]]
        /\ ReplyStored(reply, receipts')
  BY CompletedReply
<1> DEFINE y == [AtRest EXCEPT !.reply = reply]
<1>3. /\ y \in Calls /\ y.reply = reply /\ StandsNext(y)
      /\ \A z : Apart(y, z) /\ Apart(z, y)
  BY RestFacts DEF StandsNext
<1> HIDE DEF y
<1>4. /\ call'[c] = y /\ (\A d \in Callers \ {c} : call'[d] = call[d])
      /\ call' \in [Callers -> Calls]
  BY <1>2, <1>3, AllFacts DEF y
<1>5. /\ StoreTyped' /\ ClaimsAreHonest' /\ RecordsOK'
      /\ \A d \in Callers : Apart(call[c], call[d]) => StandsNext(call[d])
      /\ \A o \in orphans : Apart(call[c], o) => StandsNext(o)
      /\ \A d \in Callers : ReplyStored(call[d].reply, receipts')
  BY <1>1, BystandersStand
<1>6. \A d \in Callers : StandsNext(call'[d])
  BY <1>3, <1>4, <1>5, AllFacts
<1>7. \A o \in orphans' : o.pc = "sent" /\ StandsNext(o)
  BY <1>1, <1>5, AllFacts
<1>8. /\ \A d, e \in Callers : d # e => Apart(call'[d], call'[e])
      /\ \A d \in Callers : \A o \in orphans' : Apart(call'[d], o)
      /\ \A o, p \in orphans' : o # p => Apart(o, p)
  BY <1>1, <1>3, <1>4, AllFacts
<1>9. \A d \in Callers : ReplyStored(call'[d].reply, receipts')
  BY <1>2, <1>3, <1>4, <1>5
<1> QED BY <1>1, <1>4, <1>5, <1>6, <1>7, <1>8, <1>9, AllFacts, InvHolds

\* The server ends what was left behind.
LEMMA ResolveStep ==
  ASSUME LeaseInv, NEW o \in orphans, Resolve(o)
  PROVE  LeaseInv'
<1>1. orphans' = orphans \ {o} /\ now' = now /\ call' = call
  BY DEF Resolve
<1>2. /\ orphans' \subseteq Calls
      /\ \A c, d \in Callers : c # d => Apart(call'[c], call'[d])
      /\ \A c \in Callers : \A p \in orphans' : Apart(call'[c], p)
      /\ \A p, q \in orphans' : p # q => Apart(p, q)
  BY <1>1, AllFacts
<1>3. CASE UNCHANGED store
  <2>1. runs' = runs /\ leases' = leases /\ receipts' = receipts /\ done' = done
    BY <1>3 DEF store
  <2>2. StoreTyped' /\ ClaimsAreHonest' /\ RecordsOK'
    BY <2>1 DEF LeaseInv, LeaseTypeOK, StoreTyped, ClaimsAreHonest, Granted, RecordsOK
  <2>3. \A c \in Callers : StandsNext(call'[c]) /\ ReplyStored(call'[c].reply, receipts')
    BY <1>1, <2>1, AllFacts DEF StandsNext
  <2>4. \A p \in orphans' : p.pc = "sent" /\ StandsNext(p)
    BY <1>1, <2>1, AllFacts DEF StandsNext
  <2> QED BY <1>1, <1>2, <2>2, <2>3, <2>4, AllFacts, InvHolds
<1>4. CASE Apply(o)
  <2>1. o \in Calls /\ o.pc = "sent" /\ Rely(o)
    BY AllFacts
  <2>2. /\ StoreTyped' /\ ClaimsAreHonest' /\ RecordsOK'
        /\ \A d \in Callers : Apart(o, call[d]) => StandsNext(call[d])
        /\ \A p \in orphans : Apart(o, p) => StandsNext(p)
        /\ \A d \in Callers : ReplyStored(call[d].reply, receipts')
    BY <1>1, <1>4, <2>1, BystandersStand
  <2>3. \A d \in Callers : StandsNext(call'[d]) /\ ReplyStored(call'[d].reply, receipts')
    BY <1>1, <2>2, AllFacts
  <2>4. \A p \in orphans' : p.pc = "sent" /\ StandsNext(p)
    BY <1>1, <2>2, AllFacts
  <2> QED BY <1>1, <1>2, <2>2, <2>3, <2>4, AllFacts, InvHolds
<1> QED BY <1>3, <1>4 DEF Resolve

\* A call is refused by the server, or leaves its transaction behind.
LEMMA FailureFacts ==
  ASSUME LeaseInv, NEW c \in Callers, call[c].pc # "idle", NEW code \in ReplyCodes,
         code \notin {"data_corruption", "no_work", "claimed"}, Refuse(c, code)
  PROVE  \E reply \in Replies \cup {None} :
           /\ call' = [call EXCEPT ![c] = [AtRest EXCEPT !.reply = reply]]
           /\ ReplyStored(reply, receipts)
<1> DEFINE answer == Answer(call[c].req, code, FALSE, None)
<1>1. call[c].req \in Requests
  BY AllFacts DEF Shaped
<1>2. answer \in Replies
  BY <1>1, AnswerFacts
<1>3. ReplyStored(answer, receipts) /\ ReplyStored(None, receipts)
  BY DEF ReplyStored, Answer
<1> HIDE DEF answer
<1>4. CASE call[c].req.op \in Remembered
  BY <1>2, <1>3, <1>4 DEF Refuse, Reply, answer
<1>5. CASE call[c].req.op \notin Remembered
  BY <1>3, <1>5 DEF Refuse, Reply
<1> QED BY <1>4, <1>5

\* A transaction that fails leaves nothing behind.
LEMMA RollBackStep ==
  ASSUME LeaseInv, NEW c \in Callers, RollBack(c)
  PROVE  LeaseInv'
<1>1. "storage_unavailable" \in ReplyCodes
  BY DEF ReplyCodes
<1>2. Refuse(c, "storage_unavailable") /\ call[c].pc # "idle"
  BY DEF RollBack, FailureCode
<1>3. now' = now /\ UNCHANGED store /\ orphans' = orphans
  BY DEF RollBack
<1> QED BY <1>1, <1>2, <1>3, RefuseStep

\* Nobody knows whether a transaction left behind takes effect: it relies on what
\* its call did.
LEMMA LoseCommitStep ==
  ASSUME LeaseInv, NEW c \in Callers, LoseCommit(c)
  PROVE  LeaseInv'
<1>1. /\ call[c].pc = "sent" /\ orphans' = orphans \cup {call[c]} /\ now' = now
      /\ runs' = runs /\ leases' = leases /\ receipts' = receipts /\ done' = done
      /\ Refuse(c, "commit_outcome_unknown")
  BY DEF LoseCommit, FailureCode, store
<1>2. "commit_outcome_unknown" \in ReplyCodes
  BY DEF ReplyCodes
<1>3. PICK reply \in Replies \cup {None} :
        /\ call' = [call EXCEPT ![c] = [AtRest EXCEPT !.reply = reply]]
        /\ ReplyStored(reply, receipts)
  BY <1>1, <1>2, FailureFacts
<1> DEFINE y == [AtRest EXCEPT !.reply = reply]
<1>4. /\ y \in Calls /\ y.reply = reply /\ StandsNext(y)
      /\ \A z : Apart(y, z) /\ Apart(z, y)
  BY RestFacts DEF StandsNext
<1> HIDE DEF y
<1>5. /\ call'[c] = y /\ (\A d \in Callers \ {c} : call'[d] = call[d])
      /\ call' \in [Callers -> Calls]
  BY <1>3, <1>4, AllFacts DEF y
<1>6. StoreTyped' /\ ClaimsAreHonest' /\ RecordsOK'
  BY <1>1 DEF LeaseInv, LeaseTypeOK, StoreTyped, ClaimsAreHonest, Granted, RecordsOK
<1>7. \A d \in Callers : StandsNext(call[d]) /\ ReplyStored(call[d].reply, receipts')
  BY <1>1, AllFacts DEF StandsNext
<1>8. \A d \in Callers : StandsNext(call'[d]) /\ ReplyStored(call'[d].reply, receipts')
  BY <1>1, <1>3, <1>4, <1>5, <1>7
<1>9. \A o \in orphans' : o.pc = "sent" /\ StandsNext(o)
  BY <1>1, <1>7, AllFacts DEF StandsNext
<1>10. call[c] \in Calls
  BY AllFacts
<1>11. \A d, e \in Callers : d # e => Apart(call'[d], call'[e])
  BY <1>4, <1>5, AllFacts
<1>12. \A d \in Callers : \A o \in orphans' : Apart(call'[d], o)
  BY <1>1, <1>4, <1>5, AllFacts
<1>13. \A o, p \in orphans' : o # p => Apart(o, p)
  BY <1>1, AllFacts
<1> QED BY <1>1, <1>5, <1>6, <1>8, <1>9, <1>10, <1>11, <1>12, <1>13, AllFacts, InvHolds

\* Time takes nothing away: a lease that might be claimed still may.
LEMMA StandsLater ==
  ASSUME NEW x \in Calls, Shaped(x), NEW t \in Nat, NEW rs, NEW ls \in [Runs -> Lease \cup {None}],
         NEW cs, NEW ds, Stands(x, t, rs, ls, cs, ds)
  PROVE  Stands(x, t + 1, rs, ls, cs, ds)
<1>1. 0 .. t \subseteq 0 .. t + 1
  OBVIOUS
<1>2. ASSUME HasRow(x)
      PROVE  RowStands(x, t + 1, rs[x.run], ls[x.run])
  <2>1. RowStands(x, t, rs[x.run], ls[x.run])
    BY <1>2 DEF Stands
  <2>2. ls[x.run] \in Lease \cup {None}
    BY <2>1 DEF RowStands
  <2>3. MayBeClaimed(ls[x.run], t) => MayBeClaimed(ls[x.run], t + 1)
    BY <2>2 DEF MayBeClaimed, Lapsed, Lease
  <2>4. ClaimStands(x, t, rs[x.run], ls[x.run]) => ClaimStands(x, t + 1, rs[x.run], ls[x.run])
    BY <1>1, <2>3 DEF ClaimStands
  <2>5. MutationStands(x, t, rs[x.run], ls[x.run])
          => MutationStands(x, t + 1, rs[x.run], ls[x.run])
    BY <1>1 DEF MutationStands
  <2> QED BY <2>1, <2>4, <2>5 DEF RowStands
<1> QED BY <1>2 DEF Stands

\* The clock moves on.
LEMMA TickStep ==
  ASSUME LeaseInv, Tick
  PROVE  LeaseInv'
<1>1. /\ now' = now + 1 /\ call' = call /\ orphans' = orphans
      /\ runs' = runs /\ leases' = leases /\ receipts' = receipts /\ done' = done
  BY DEF Tick, store
<1>2. now \in Nat /\ leases \in [Runs -> Lease \cup {None}] /\ orphans \subseteq Calls
      /\ call \in [Callers -> Calls]
  BY AllFacts DEF StoreTyped
<1>3. StoreTyped' /\ ClaimsAreHonest' /\ RecordsOK'
  BY <1>1 DEF LeaseInv, LeaseTypeOK, StoreTyped, ClaimsAreHonest, Granted, RecordsOK
<1>4. \A d \in Callers : StandsNext(call'[d]) /\ ReplyStored(call'[d].reply, receipts')
  BY <1>1, <1>2, AllFacts, StandsLater DEF StandsNext
<1>5. \A o \in orphans' : o.pc = "sent" /\ StandsNext(o)
  BY <1>1, <1>2, AllFacts, StandsLater DEF StandsNext
<1>6. /\ \A c, d \in Callers : c # d => Apart(call'[c], call'[d])
      /\ \A c \in Callers : \A o \in orphans' : Apart(call'[c], o)
      /\ \A o, p \in orphans' : o # p => Apart(o, p)
  BY <1>1, AllFacts
<1> QED BY <1>1, <1>2, <1>3, <1>4, <1>5, <1>6, InvHolds

\* A stuttering step.
LEMMA UnchangedStep ==
  ASSUME LeaseInv, UNCHANGED vars
  PROVE  LeaseInv'
<1>1. /\ now' = now /\ call' = call /\ orphans' = orphans
      /\ runs' = runs /\ leases' = leases /\ receipts' = receipts /\ done' = done
  BY DEF vars
<1>2. StoreTyped' /\ ClaimsAreHonest' /\ RecordsOK'
  BY <1>1 DEF LeaseInv, LeaseTypeOK, StoreTyped, ClaimsAreHonest, Granted, RecordsOK
<1>3. \A d \in Callers : StandsNext(call'[d]) /\ ReplyStored(call'[d].reply, receipts')
  BY <1>1, AllFacts DEF StandsNext
<1>4. \A o \in orphans' : o.pc = "sent" /\ StandsNext(o)
  BY <1>1, AllFacts DEF StandsNext
<1>5. /\ \A c, d \in Callers : c # d => Apart(call'[c], call'[d])
      /\ \A c \in Callers : \A o \in orphans' : Apart(call'[c], o)
      /\ \A o, p \in orphans' : o # p => Apart(o, p)
  BY <1>1, AllFacts
<1> QED BY <1>1, <1>2, <1>3, <1>4, <1>5, AllFacts, InvHolds

\* At the start nobody holds, relies on or was told anything.
LEMMA InitHolds == Init => LeaseInv
<1> SUFFICES ASSUME Init
             PROVE  LeaseInv
  OBVIOUS
<1>1. \A c \in Callers : call[c] = AtRest
  BY DEF Init
<1> DEFINE rest == [AtRest EXCEPT !.reply = None]
<1>2. rest = AtRest
  BY DEF AtRest
<1>2a. /\ rest \in Calls /\ rest.reply = None /\ Shaped(rest)
       /\ \A t, rs, ls, cs, ds : Stands(rest, t, rs, ls, cs, ds)
       /\ \A z : Apart(rest, z)
  BY RestFacts
<1> HIDE DEF rest
<1>3. /\ AtRest \in Calls /\ AtRest.reply = None /\ Shaped(AtRest)
      /\ Stands(AtRest, now, runs, leases, receipts, done)
      /\ \A z : Apart(AtRest, z)
  BY <1>2, <1>2a
<1>4. LeaseTypeOK
  <2>1. runs \in [Runs -> Run]
    BY DEF Init, Run, RunStatuses
  <2>2. \A x \in {call[c] : c \in Callers} \cup orphans : x = AtRest
    BY <1>1 DEF Init
  <2>3. AtRest.pc = "idle"
    BY DEF AtRest
  <2> QED BY <1>3, <2>1, <2>2, <2>3 DEF Init, LeaseTypeOK
<1>5. ClaimsAreHonest
  BY DEF Init, ClaimsAreHonest, Granted
<1>6. RecordsOK /\ ClaimRepliesAreStored
  BY <1>1, <1>3 DEF Init, RecordsOK, ClaimRepliesAreStored
<1>7. TransactionsOK
  BY <1>1, <1>3 DEF Init, TransactionsOK, Rely
<1> QED BY <1>4, <1>5, <1>6, <1>7 DEF LeaseInv

\* Every step keeps the inductive invariant.
LEMMA NextHolds == LeaseInv /\ [Next]_vars => LeaseInv'
<1> SUFFICES ASSUME LeaseInv, [Next]_vars
             PROVE  LeaseInv'
  OBVIOUS
<1>1. ASSUME NEW c \in Callers, Progress(c)
      PROVE  LeaseInv'
  BY <1>1, ReadClockStep, LoadReceiptStep, ReplayClaimStep, SelectStep, SkipLockedStep,
     ProbeGetsRowStep, RecheckStep, StoreLeaseStep, InsertReceiptStep, EvaluateStep,
     DecideMutationStep, ArbitrateCommitStep, LockForCommitStep, SendCommitStep, CompleteStep
     DEF Progress
<1>2. ASSUME NEW c \in Callers, Fail(c) \/ LoseCommit(c) \/ DetectDeadlock(c)
      PROVE  LeaseInv'
  BY <1>2, RollBackStep, LoseCommitStep DEF Fail, DetectDeadlock
<1> QED BY <1>1, <1>2, RequestStep, ResolveStep, TickStep, UnchangedStep DEF Next

\* The inductive invariant holds in every reachable state.
THEOREM LeasesStayInOrder == Spec => []LeaseInv
BY InitHolds, NextHolds, PTL DEF Spec
-----------------------------------------------------------------------------
(***************************************************************************)
(* What the tables do: they change by a commit of what was sent, only.     *)
(***************************************************************************)
Transactions == {call[c] : c \in Callers} \cup orphans

\* The tables change by the commit of a transaction that was sent and may rely on its view.
LEMMA StoreSteps ==
  ASSUME LeaseInv, [Next]_vars
  PROVE  \/ UNCHANGED <<now, store>>
         \/ now' = now + 1 /\ now \in Nat /\ UNCHANGED store
         \/ \E x \in Calls : /\ x \in Transactions /\ x.pc = "sent" /\ Rely(x)
                             /\ Apply(x) /\ now' = now
<1>1. CASE UNCHANGED vars
  BY <1>1 DEF vars, store
<1>2. CASE Tick
  BY <1>2, AllFacts DEF Tick
<1>3. ASSUME NEW o \in orphans, Resolve(o)
      PROVE  \/ UNCHANGED <<now, store>>
             \/ \E x \in Calls : /\ x \in Transactions /\ x.pc = "sent" /\ Rely(x)
                                 /\ Apply(x) /\ now' = now
  <2>1. o \in Calls /\ o.pc = "sent" /\ Rely(o) /\ o \in Transactions
    BY AllFacts DEF Transactions
  <2> QED BY <1>3, <2>1 DEF Resolve
<1>4. ASSUME NEW c \in Callers, Complete(c)
      PROVE  \E x \in Calls : /\ x \in Transactions /\ x.pc = "sent" /\ Rely(x)
                              /\ Apply(x) /\ now' = now
  <2>1. call[c] \in Calls /\ Rely(call[c]) /\ call[c] \in Transactions
    BY AllFacts DEF Transactions, Rely
  <2> QED BY <1>4, <2>1 DEF Complete
<1>5. ASSUME NEW c \in Callers,
             Request(c) \/ Fail(c) \/ LoseCommit(c) \/ DetectDeadlock(c)
      PROVE  UNCHANGED <<now, store>>
  BY <1>5, ZenonT(60) DEF Request, Fail, LoseCommit, DetectDeadlock, RollBack
<1>6. ASSUME NEW c \in Callers, Progress(c)
      PROVE  UNCHANGED <<now, store>> \/ Complete(c)
  BY <1>6 DEF Progress, ReadClock, LoadReceipt, ReplayClaim, Select, SkipLocked, ProbeGetsRow,
     Recheck, StoreLease, InsertReceipt, Evaluate, DecideMutation, ArbitrateCommit,
     LockForCommit, SendCommit
<1> QED BY <1>1, <1>2, <1>3, <1>4, <1>5, <1>6 DEF Next

\* What a granted, renewed or released lease is to the one it replaces.
LEMMA NewLeaseFacts ==
  ASSUME LeaseInv, NEW x \in Calls, x.pc = "sent", Rely(x)
  PROVE  LET old == leases[x.run]
         IN /\ Grants(x) =>
                 /\ old \in Lease \cup {None} /\ MayBeClaimed(old, now)
                 /\ runs[x.run].status = "queued"
                 /\ x.lease.claim = x.req.claim
                 /\ x.lease.attempt = (IF old = None THEN 1 ELSE old.attempt + 1)
                 /\ x.lease.version = (IF old = None THEN 1 ELSE old.version + 1)
                 /\ x.lease.released = None
                 /\ \E at \in 0 .. now, d \in Durations : x.lease.expires = at + d
            /\ Mutates(x) =>
                 /\ old \in Lease /\ old.released = None /\ ProofMatches(x.req.proof, old)
                 /\ x.req.proof.run = x.run
                 /\ x.lease.claim = old.claim /\ x.lease.attempt = old.attempt
                 /\ x.lease.version = old.version + 1
                 /\ x.req.op = "renew" =>
                      /\ runs[x.run].status \in Workable /\ x.lease.released = None
                      /\ \E at \in 0 .. now, d \in Durations : x.lease.expires = at + d
                 /\ x.req.op = "release" =>
                      x.lease.expires = old.expires /\ x.lease.released # None
<1> DEFINE old == leases[x.run]
<1>1. now \in Nat /\ leases \in [Runs -> Lease \cup {None}]
  BY AllFacts DEF StoreTyped
<1>2. ASSUME Grants(x)
      PROVE  /\ old \in Lease \cup {None} /\ MayBeClaimed(old, now)
             /\ runs[x.run].status = "queued"
             /\ x.lease.claim = x.req.claim
             /\ x.lease.attempt = (IF old = None THEN 1 ELSE old.attempt + 1)
             /\ x.lease.version = (IF old = None THEN 1 ELSE old.version + 1)
             /\ x.lease.released = None
             /\ \E at \in 0 .. now, d \in Durations : x.lease.expires = at + d
  <2>1. /\ x.run \in Runs /\ ClaimStands(x, now, runs[x.run], old) /\ x.lease # None
        /\ x.req \in ClaimRequest
    BY <1>2, SentFacts DEF Grants
  <2>2. PICK at \in 0 .. now, token \in Tokens : x.lease = NextLease(old, x.req, token, at)
    BY <2>1 DEF ClaimStands
  <2>3. MayBeClaimed(old, now) /\ runs[x.run].status = "queued" /\ x.req.duration \in Durations
    BY <2>1 DEF ClaimStands, ClaimRequest
  <2>4. /\ x.lease.claim = x.req.claim
        /\ x.lease.attempt = (IF old = None THEN 1 ELSE old.attempt + 1)
        /\ x.lease.version = (IF old = None THEN 1 ELSE old.version + 1)
        /\ x.lease.released = None /\ x.lease.expires = at + x.req.duration
    BY <2>2 DEF NextLease
  <2> QED BY <1>1, <2>1, <2>3, <2>4
<1>3. ASSUME Mutates(x)
      PROVE  /\ old \in Lease /\ old.released = None /\ ProofMatches(x.req.proof, old)
             /\ x.req.proof.run = x.run
             /\ x.lease.claim = old.claim /\ x.lease.attempt = old.attempt
             /\ x.lease.version = old.version + 1
             /\ x.req.op = "renew" =>
                  /\ runs[x.run].status \in Workable /\ x.lease.released = None
                  /\ \E at \in 0 .. now, d \in Durations : x.lease.expires = at + d
             /\ x.req.op = "release" =>
                  x.lease.expires = old.expires /\ x.lease.released # None
  <2>1. /\ x.run \in Runs /\ MutationStands(x, now, runs[x.run], old) /\ x.req \in Requests
    BY <1>3, SentFacts
  <2>2. /\ old \in Lease /\ old.released = None /\ ProofMatches(x.req.proof, old)
        /\ x.req.proof.run = x.run
    BY <1>1, <2>1 DEF MutationStands
  <2>3. PICK at \in 0 .. now :
          \/ /\ x.req.op = "renew" /\ runs[x.run].status \in Workable
             /\ x.lease = RenewedLease(old, x.req.duration, at)
          \/ x.req.op = "release" /\ x.lease = ReleasedLease(old, at)
    BY <2>1 DEF MutationStands
  <2>4. at \in Nat /\ at # None
    BY <1>1, LeasesAssumption
  <2>5. CASE x.req.op = "renew"
    <3>1. x.req.duration \in Durations
      BY <2>1, <2>5, RequestFacts DEF RenewRequest
    <3>2. runs[x.run].status \in Workable /\ x.lease = RenewedLease(old, x.req.duration, at)
      BY <2>3, <2>5
    <3> QED BY <2>2, <2>4, <2>5, <3>1, <3>2, RenewedLeaseFacts
  <2>6. CASE x.req.op = "release"
    <3>1. x.lease = ReleasedLease(old, at)
      BY <2>3, <2>6
    <3> QED BY <2>2, <2>4, <2>6, <3>1, ReleasedLeaseFacts
  <2> QED BY <1>3, <2>5, <2>6 DEF Mutates
<1> QED BY <1>2, <1>3

\* A lease that changes is replaced by the next attempt or moved by its holder.
LEMMA HolderMoves ==
  ASSUME LeaseInv, [Next]_vars, NEW r \in Runs, leases[r] # None, leases'[r] # leases[r]
  PROVE  /\ leases'[r] # None /\ leases'[r].version = leases[r].version + 1
         /\ \/ leases'[r].attempt = leases[r].attempt + 1
            \/ /\ leases'[r].attempt = leases[r].attempt
               /\ \E x \in {call[c] : c \in Callers} \cup orphans :
                    /\ x.pc = "sent" /\ x.req.op \in {"renew", "release"}
                    /\ x.req.proof.run = r /\ ProofMatches(x.req.proof, leases[r])
<1>1. PICK x \in Calls : x \in Transactions /\ x.pc = "sent" /\ Rely(x) /\ Apply(x)
  BY StoreSteps DEF store
<1>2. Grants(x) \/ Mutates(x)
  BY <1>1, SentFacts, ApplyEffects
<1>3. leases' = [leases EXCEPT ![x.run] = x.lease] /\ x.lease \in Lease /\ x.run \in Runs
  BY <1>1, <1>2, ApplyEffects, SentFacts
<1>4. r = x.run /\ leases'[r] = x.lease /\ x.lease # None
  BY <1>3, RowsAssumption, AllFacts DEF StoreTyped
<1>5. CASE Grants(x)
  BY <1>1, <1>4, <1>5, NewLeaseFacts
<1>6. CASE Mutates(x)
  <2>1. /\ x.lease.version = leases[r].version + 1 /\ x.lease.attempt = leases[r].attempt
        /\ x.req.proof.run = r /\ ProofMatches(x.req.proof, leases[r])
    BY <1>1, <1>4, <1>6, NewLeaseFacts
  <2> QED BY <1>1, <1>4, <1>6, <2>1 DEF Transactions, Mutates
<1> QED BY <1>2, <1>5, <1>6

\* What a guarded commit records was done under the current lease.
LEMMA WorkFenced ==
  ASSUME LeaseInv, [Next]_vars, NEW q \in Commands,
         done[q] = None, done'[q] # None, done'[q].attempt # 0
  PROVE  LET lease == leases[done'[q].run]
         IN lease.attempt = done'[q].attempt /\ lease.released = None
<1>1. PICK x \in Calls : x \in Transactions /\ x.pc = "sent" /\ Rely(x) /\ Apply(x)
  BY StoreSteps DEF store
<1>2. IsCommit(x.req)
  BY <1>1, SentFacts, ApplyEffects
<1>3. /\ done' = [done EXCEPT ![x.req.command] =
                    [run |-> x.req.run, status |-> x.req.status,
                     version |-> x.req.expected + 1, attempt |-> AttemptOf(x.req)]]
      /\ CommitStands(x, runs[x.run], leases[x.run])
  BY <1>1, <1>2, ApplyEffects, SentFacts
<1>4. q = x.req.command
  BY <1>3, AllFacts DEF StoreTyped
<1>5. done'[q].run = x.req.run /\ done'[q].attempt = AttemptOf(x.req)
  BY <1>3, <1>4, AllFacts DEF StoreTyped
<1>6. x.req.op = "commit_with_lease" /\ AttemptOf(x.req) = x.req.proof.attempt
  BY <1>5 DEF AttemptOf
<1> QED BY <1>3, <1>5, <1>6 DEF CommitStands, ProofMatches

\* LeaseTypeOK: tables and calls keep their shape, and what is about to be written is
\* a row that the table admits, written under the lock of its run.
THEOREM LeasesTypeCorrect == Spec => []LeaseTypeOK
BY LeasesStayInOrder, PTL DEF LeaseInv

\* ClaimsAreHonest: the lease of a run is the grant of its claim's receipt, and no
\* attempt of a run was granted to two claims (claim, _ClaimRaceLost).
THEOREM LeasesAndReceiptsAgree == Spec => []ClaimsAreHonest
BY LeasesStayInOrder, PTL DEF LeaseInv

\* ClaimRepliesAreStored: a claim is answered with what its receipt says, also when
\* it lost the race for its id (_outcome_from_receipt).
THEOREM ClaimsAreAnsweredAsStored == Spec => []ClaimRepliesAreStored
BY LeasesStayInOrder, PTL DEF LeaseInv

\* HolderMovesItsLease: a lease is replaced by the next attempt or moved one version on
\* by a renewal or release that proves to be its holder's, however late it commits.
THEOREM OnlyHoldersMoveLeases == Spec => HolderMovesItsLease
<1>1. LeaseInv /\ [Next]_vars =>
        [\A r \in Runs :
           (leases[r] # None /\ leases'[r] # leases[r]) =>
             /\ leases'[r] # None /\ leases'[r].version = leases[r].version + 1
             /\ \/ leases'[r].attempt = leases[r].attempt + 1
                \/ /\ leases'[r].attempt = leases[r].attempt
                   /\ \E x \in {call[c] : c \in Callers} \cup orphans :
                        /\ x.pc = "sent" /\ x.req.op \in {"renew", "release"}
                        /\ x.req.proof.run = r /\ ProofMatches(x.req.proof, leases[r])]_vars
  BY HolderMoves
<1> QED BY <1>1, LeasesStayInOrder, PTL DEF Spec, HolderMovesItsLease

\* WorkIsFenced: what a guarded commit records was done under the lease that is current
\* and not released at its COMMIT (_validate_current_lease under the row locks).
THEOREM GuardedWorkIsFenced == Spec => WorkIsFenced
<1>1. LeaseInv /\ [Next]_vars =>
        [\A q \in Commands :
           (done[q] = None /\ done'[q] # None /\ done'[q].attempt # 0) =>
             LET lease == leases[done'[q].run]
             IN lease.attempt = done'[q].attempt /\ lease.released = None]_vars
  BY WorkFenced
<1> QED BY <1>1, LeasesStayInOrder, PTL DEF Spec, WorkIsFenced
-----------------------------------------------------------------------------
(***************************************************************************)
(* The refinement of LeaseAuthority.                                       *)
(***************************************************************************)
\* What the abstraction sees of a lease, of a receipt and of a commit.
HolderOf(lease) ==
  IF lease = None THEN None
  ELSE [claim |-> lease.claim, attempt |-> lease.attempt,
        until |-> lease.expires, ended |-> lease.released # None]

AnswerOf(receipt) ==
  IF receipt = None THEN None
  ELSE IF receipt.outcome = "no_work" THEN "no_work"
  ELSE [run |-> receipt.run, attempt |-> receipt.attempt]

WorkOf(record) ==
  IF record = None THEN None ELSE [run |-> record.run, attempt |-> record.attempt]

Statuses == [r \in Runs |-> runs[r].status]
Holders == [r \in Runs |-> HolderOf(leases[r])]
Answers == [k \in Claims |-> AnswerOf(receipts[k])]
Works == [q \in Commands |-> WorkOf(done[q])]

\* What the abstraction keeps of a lease.
LEMMA HolderFacts ==
  ASSUME NEW lease \in Lease
  PROVE  /\ HolderOf(None) = None /\ HolderOf(lease) # None
         /\ HolderOf(lease).claim = lease.claim /\ HolderOf(lease).attempt = lease.attempt
         /\ HolderOf(lease).until = lease.expires
         /\ HolderOf(lease).ended = (lease.released # None)
<1>1. lease # None
  BY RowsAssumption
<1>2. [claim |-> lease.claim, attempt |-> lease.attempt,
       until |-> lease.expires, ended |-> lease.released # None]
        \in [claim : Claims, attempt : Nat, until : Nat, ended : BOOLEAN]
  BY DEF Lease
<1> QED BY <1>1, <1>2, RowsAssumption DEF HolderOf

\* The tables are seen row by row.
LEMMA SeenByRow ==
  ASSUME LeaseInv
  PROVE  /\ UNCHANGED runs => UNCHANGED Statuses
         /\ UNCHANGED leases => UNCHANGED Holders
         /\ UNCHANGED receipts => UNCHANGED Answers
         /\ UNCHANGED done => UNCHANGED Works
         /\ \A r \in Runs : \A row : runs' = [runs EXCEPT ![r] = row]
              => Statuses' = [Statuses EXCEPT ![r] = row.status]
         /\ \A r \in Runs : \A row : leases' = [leases EXCEPT ![r] = row]
              => Holders' = [Holders EXCEPT ![r] = HolderOf(row)]
         /\ \A k \in Claims : \A row : receipts' = [receipts EXCEPT ![k] = row]
              => Answers' = [Answers EXCEPT ![k] = AnswerOf(row)]
         /\ \A q \in Commands : \A row : done' = [done EXCEPT ![q] = row]
              => Works' = [Works EXCEPT ![q] = WorkOf(row)]
<1>1. StoreTyped
  BY AllFacts
<1>2. \A r \in Runs : \A row : runs' = [runs EXCEPT ![r] = row]
        => Statuses' = [Statuses EXCEPT ![r] = row.status]
  BY <1>1 DEF StoreTyped, Statuses
<1>3. \A r \in Runs : \A row : leases' = [leases EXCEPT ![r] = row]
        => Holders' = [Holders EXCEPT ![r] = HolderOf(row)]
  BY <1>1 DEF StoreTyped, Holders
<1>4. \A k \in Claims : \A row : receipts' = [receipts EXCEPT ![k] = row]
        => Answers' = [Answers EXCEPT ![k] = AnswerOf(row)]
  BY <1>1 DEF StoreTyped, Answers
<1>5. \A q \in Commands : \A row : done' = [done EXCEPT ![q] = row]
        => Works' = [Works EXCEPT ![q] = WorkOf(row)]
  BY <1>1 DEF StoreTyped, Works
<1> QED BY <1>2, <1>3, <1>4, <1>5 DEF Statuses, Holders, Answers, Works

\* The abstract actions, said of what is seen.
Ends == {t + d : t \in 0 .. now, d \in Durations}

NextAttempt(holder) == IF holder = None THEN 1 ELSE holder.attempt + 1

SeenGrant(k, r) ==
  /\ Answers[k] = None /\ Statuses[r] = "queued"
  /\ Holders[r] = None \/ Holders[r].ended \/ Holders[r].until <= now
  /\ \E until \in Ends :
       Holders' = [Holders EXCEPT ![r] = [claim   |-> k,
                                          attempt |-> NextAttempt(Holders[r]),
                                          until   |-> until,
                                          ended   |-> FALSE]]
  /\ Answers' = [Answers EXCEPT ![k] = [run |-> r, attempt |-> NextAttempt(Holders[r])]]
  /\ now' = now /\ Statuses' = Statuses /\ Works' = Works

SeenRefuse(k) ==
  /\ Answers[k] = None
  /\ \A r \in Runs : Statuses[r] = "queued" => Holders[r] # None
  /\ Answers' = [Answers EXCEPT ![k] = "no_work"]
  /\ now' = now /\ Statuses' = Statuses /\ Holders' = Holders /\ Works' = Works

SeenHeld(r) == Holders[r] # None /\ ~Holders[r].ended

SeenExtend(r) ==
  /\ SeenHeld(r) /\ Statuses[r] \in Workable
  /\ \E until \in Ends :
       Holders' = [Holders EXCEPT ![r].until = until]
  /\ now' = now /\ Statuses' = Statuses /\ Answers' = Answers /\ Works' = Works

SeenEnd(r) ==
  /\ SeenHeld(r)
  /\ Holders' = [Holders EXCEPT ![r].ended = TRUE]
  /\ now' = now /\ Statuses' = Statuses /\ Answers' = Answers /\ Works' = Works

SeenChange(q, r, attempt) ==
  /\ Works[q] = None
  /\ \E s \in Follows[Statuses[r]] : Statuses' = [Statuses EXCEPT ![r] = s]
  /\ Works' = [Works EXCEPT ![q] = [run |-> r, attempt |-> attempt]]
  /\ now' = now /\ Holders' = Holders /\ Answers' = Answers

SeenWork(q, r) ==
  SeenHeld(r) /\ Statuses[r] \in Workable /\ SeenChange(q, r, Holders[r].attempt)

\* The actions said of what is seen are those of LeaseAuthority.
LEMMA SeenIsMeant ==
  /\ \A k \in Claims, r \in Runs : SeenGrant(k, r) => Authorities!AuthorityNext
  /\ \A k \in Claims : SeenRefuse(k) => Authorities!AuthorityNext
  /\ \A r \in Runs : SeenExtend(r) \/ SeenEnd(r) => Authorities!AuthorityNext
  /\ \A q \in Commands, r \in Runs :
       SeenWork(q, r) \/ SeenChange(q, r, 0) => Authorities!AuthorityNext
<1>0. Ends = Authorities!Promises
  BY DEF Ends, Authorities!Promises
<1>1. ASSUME NEW k \in Claims, NEW r \in Runs, SeenGrant(k, r)
      PROVE  Authorities!Grant(k, r)
  <2>1. Authorities!NextAttempt(r) = NextAttempt(Holders[r])
    BY DEF Authorities!NextAttempt, NextAttempt, Holders, HolderOf
  <2>2. Authorities!Unclaimed(r)
    BY <1>1 DEF SeenGrant, Authorities!Unclaimed, Holders, HolderOf
  <2>3. PICK until \in Ends :
          Holders' = [Holders EXCEPT ![r] = [claim   |-> k,
                                             attempt |-> NextAttempt(Holders[r]),
                                             until   |-> until,
                                             ended   |-> FALSE]]
    BY <1>1 DEF SeenGrant
  <2>4. \E u \in Authorities!Promises :
          Holders' = [Holders EXCEPT ![r] = [claim   |-> k,
                                             attempt |-> Authorities!NextAttempt(r),
                                             until   |-> u,
                                             ended   |-> FALSE]]
    BY <1>0, <2>1, <2>3
  <2>5. Answers' = [Answers EXCEPT ![k] = [run |-> r, attempt |-> Authorities!NextAttempt(r)]]
    BY <1>1, <2>1 DEF SeenGrant
  <2>6. /\ Answers[k] = None /\ Statuses[r] = "queued"
        /\ now' = now /\ Statuses' = Statuses /\ Works' = Works
    BY <1>1 DEF SeenGrant
  <2> QED BY <2>2, <2>4, <2>5, <2>6, Zenon DEF Authorities!Grant, Statuses, Holders, Answers,
          Works, HolderOf, AnswerOf, WorkOf
<1>2. ASSUME NEW k \in Claims, SeenRefuse(k)
      PROVE  Authorities!Refuse(k)
  BY <1>2 DEF SeenRefuse, Authorities!Refuse, Statuses, Holders, Answers, Works,
     HolderOf, AnswerOf, WorkOf
<1>3. ASSUME NEW r \in Runs, SeenExtend(r)
      PROVE  Authorities!Extend(r)
  <2>1. Authorities!Held(r) /\ Statuses[r] \in Authorities!Workable
    BY <1>3 DEF SeenExtend, SeenHeld, Authorities!Held, Authorities!Workable, Workable,
       Holders, HolderOf
  <2>2. \E until \in Authorities!Promises : Holders' = [Holders EXCEPT ![r].until = until]
    BY <1>0, <1>3 DEF SeenExtend
  <2>3. now' = now /\ Statuses' = Statuses /\ Answers' = Answers /\ Works' = Works
    BY <1>3 DEF SeenExtend
  <2> QED BY <2>1, <2>2, <2>3 DEF Authorities!Extend, Statuses, Holders, Answers, Works,
          HolderOf, AnswerOf, WorkOf
<1>4. ASSUME NEW r \in Runs, SeenEnd(r)
      PROVE  Authorities!End(r)
  BY <1>4 DEF SeenEnd, SeenHeld, Authorities!End, Authorities!Held,
     Statuses, Holders, Answers, Works, HolderOf, AnswerOf, WorkOf
<1>5. ASSUME NEW q \in Commands, NEW r \in Runs, SeenChange(q, r, 0)
      PROVE  Authorities!Change(q, r, 0)
  BY <1>5 DEF SeenChange, Authorities!Change, Authorities!Follows, Follows,
     Statuses, Holders, Answers, Works, HolderOf, AnswerOf, WorkOf
<1>6. ASSUME NEW q \in Commands, NEW r \in Runs, SeenWork(q, r)
      PROVE  Authorities!Work(q, r)
  <2>1. Authorities!Change(q, r, Holders[r].attempt)
    BY <1>6 DEF SeenWork, SeenChange, Authorities!Change, Authorities!Follows, Follows,
       Statuses, Holders, Answers, Works, HolderOf, AnswerOf, WorkOf
  <2>2. Authorities!Held(r) /\ Statuses[r] \in Authorities!Workable
    BY <1>6 DEF SeenWork, SeenHeld, Authorities!Held, Authorities!Workable, Workable,
       Holders, HolderOf
  <2> QED BY <2>1, <2>2 DEF Authorities!Work, Statuses, Holders, HolderOf
<1>7. ASSUME NEW q \in Commands, NEW r \in Runs, SeenChange(q, r, 0)
      PROVE  Authorities!Intervene(q, r)
  BY <1>5, <1>7 DEF Authorities!Intervene
<1> QED BY <1>1, <1>2, <1>3, <1>4, <1>6, <1>7 DEF Authorities!AuthorityNext

\* Each commit of what was sent is an abstract step.
LEMMA GrantIsSeen ==
  ASSUME LeaseInv, NEW x \in Calls, x.pc = "sent", Rely(x), Apply(x), now' = now, Grants(x)
  PROVE  SeenGrant(x.req.claim, x.run)
<1> DEFINE k == x.req.claim
           r == x.run
           old == leases[r]
           receipt == ClaimedReceipt(x.req, r, x.lease)
<1>1. /\ k \in Claims /\ r \in Runs /\ receipts[k] = None /\ x.lease \in Lease
      /\ x.req \in ClaimRequest
  BY SentFacts DEF Grants
<1>2. /\ leases' = [leases EXCEPT ![r] = x.lease]
      /\ receipts' = [receipts EXCEPT ![k] = receipt]
      /\ runs' = runs /\ done' = done
  BY ApplyEffects
<1>3. /\ old \in Lease \cup {None} /\ MayBeClaimed(old, now)
      /\ runs[r].status = "queued"
      /\ x.lease.claim = k
      /\ x.lease.attempt = (IF old = None THEN 1 ELSE old.attempt + 1)
      /\ x.lease.released = None
      /\ \E at \in 0 .. now, d \in Durations : x.lease.expires = at + d
  BY NewLeaseFacts
<1>4. /\ receipt \in Receipt /\ receipt # None /\ receipt.outcome = "claimed"
      /\ receipt.run = r /\ receipt.attempt = x.lease.attempt
  BY <1>1, ReceiptFacts, RowsAssumption
<1> HIDE DEF receipt
<1>5. Holders[r] = HolderOf(old) /\ Statuses[r] = runs[r].status
      /\ Answers[k] = AnswerOf(receipts[k])
  BY <1>1 DEF Holders, Statuses, Answers
<1>6. x.lease.attempt = NextAttempt(Holders[r])
  <2>1. CASE old = None
    BY <1>3, <1>5, <2>1 DEF NextAttempt, HolderOf
  <2>2. CASE old # None
    <3>1. HolderOf(old) # None /\ HolderOf(old).attempt = old.attempt
      BY <1>3, <2>2, HolderFacts
    <3> QED BY <1>3, <1>5, <2>2, <3>1 DEF NextAttempt
  <2> QED BY <2>1, <2>2
<1>7. Holders[r] = None \/ Holders[r].ended \/ Holders[r].until <= now
  <2>1. CASE old = None
    BY <1>5, <2>1 DEF HolderOf
  <2>2. CASE old # None
    BY <1>3, <1>5, <2>2, HolderFacts DEF MayBeClaimed, Lapsed
  <2> QED BY <2>1, <2>2
<1>8. x.lease.expires \in Ends
  BY <1>3 DEF Ends
<1>9. HolderOf(x.lease) = [claim |-> k, attempt |-> NextAttempt(Holders[r]),
                           until |-> x.lease.expires, ended |-> FALSE]
  <2>1. x.lease # None
    BY <1>1, RowsAssumption
  <2> QED BY <1>3, <1>6, <2>1 DEF HolderOf
<1>10. AnswerOf(receipt) = [run |-> r, attempt |-> NextAttempt(Holders[r])]
  BY <1>4, <1>6 DEF AnswerOf
<1>11. /\ Holders' = [Holders EXCEPT ![r] = HolderOf(x.lease)]
       /\ Answers' = [Answers EXCEPT ![k] = AnswerOf(receipt)]
       /\ Statuses' = Statuses /\ Works' = Works
  BY <1>1, <1>2, SeenByRow
<1>12. Answers[k] = None /\ Statuses[r] = "queued"
  BY <1>1, <1>3, <1>5 DEF AnswerOf
<1> QED BY <1>7, <1>8, <1>9, <1>10, <1>11, <1>12 DEF SeenGrant

\* A claim that is told no_work refuses abstractly.
LEMMA RefusalIsSeen ==
  ASSUME LeaseInv, NEW x \in Calls, x.pc = "sent", Rely(x), Apply(x), now' = now, Declines(x)
  PROVE  SeenRefuse(x.req.claim)
<1> DEFINE k == x.req.claim
           receipt == NoWorkReceipt(x.req)
<1>1. /\ k \in Claims /\ receipts[k] = None /\ GivenBut({}, runs, leases)
      /\ x.req \in ClaimRequest
  BY SentFacts DEF Declines
<1>2. /\ receipts' = [receipts EXCEPT ![k] = receipt]
      /\ leases' = leases /\ runs' = runs /\ done' = done
  BY ApplyEffects
<1>3. AnswerOf(receipt) = "no_work"
  BY <1>1, ReceiptFacts, RowsAssumption DEF AnswerOf
<1> HIDE DEF receipt
<1>4. /\ Answers' = [Answers EXCEPT ![k] = AnswerOf(receipt)]
      /\ Statuses' = Statuses /\ Holders' = Holders /\ Works' = Works
  BY <1>1, <1>2, SeenByRow
<1>5. Answers[k] = None
  BY <1>1 DEF Answers, AnswerOf
<1>6. \A r \in Runs : Statuses[r] = "queued" => Holders[r] # None
  <2>1. \A r \in Runs : leases[r] # None => leases[r] \in Lease
    BY AllFacts DEF StoreTyped
  <2> QED BY <1>1, <2>1, HolderFacts DEF GivenBut, Statuses, Holders
<1> QED BY <1>3, <1>4, <1>5, <1>6 DEF SeenRefuse

HolderRecord == [claim : Claims, attempt : Nat, until : Nat, ended : BOOLEAN]

\* A holder of whom one thing is changed.
LEMMA HolderChanges ==
  ASSUME NEW a \in HolderRecord, NEW b \in HolderRecord, b.claim = a.claim,
         b.attempt = a.attempt
  PROVE  /\ b.ended = a.ended => b = [a EXCEPT !.until = b.until]
         /\ b.until = a.until => b = [a EXCEPT !.ended = b.ended]
BY DEF HolderRecord

\* A renewal extends, a release ends.
LEMMA MutationIsSeen ==
  ASSUME LeaseInv, NEW x \in Calls, x.pc = "sent", Rely(x), Apply(x), now' = now, Mutates(x)
  PROVE  x.run \in Runs /\ (SeenExtend(x.run) \/ SeenEnd(x.run))
<1> DEFINE r == x.run
           old == leases[r]
<1>1. r \in Runs /\ x.lease \in Lease /\ x.lease # None
  BY SentFacts, RowsAssumption
<1>2. /\ leases' = [leases EXCEPT ![r] = x.lease]
      /\ receipts' = receipts /\ runs' = runs /\ done' = done
  BY ApplyEffects
<1>3. /\ old \in Lease /\ old # None /\ old.released = None
      /\ x.lease.claim = old.claim /\ x.lease.attempt = old.attempt
      /\ x.req.op = "renew" =>
           /\ runs[r].status \in Workable /\ x.lease.released = None
           /\ \E at \in 0 .. now, d \in Durations : x.lease.expires = at + d
      /\ x.req.op = "release" => x.lease.expires = old.expires /\ x.lease.released # None
  BY NewLeaseFacts, RowsAssumption
<1>4. Holders[r] = HolderOf(old)
  BY <1>1 DEF Holders
<1>5. SeenHeld(r)
  BY <1>3, <1>4, HolderFacts DEF SeenHeld
<1>6. /\ Holders' = [Holders EXCEPT ![r] = HolderOf(x.lease)]
      /\ Statuses' = Statuses /\ Answers' = Answers /\ Works' = Works
  BY <1>1, <1>2, SeenByRow
<1>7. /\ Holders[r] \in HolderRecord /\ HolderOf(x.lease) \in HolderRecord
      /\ HolderOf(x.lease).claim = Holders[r].claim
      /\ HolderOf(x.lease).attempt = Holders[r].attempt
      /\ Holders[r].until = old.expires /\ Holders[r].ended = FALSE
  <2>1. \A lease \in Lease : HolderOf(lease) \in HolderRecord
    BY RowsAssumption DEF HolderOf, HolderRecord, Lease
  <2> QED BY <1>1, <1>3, <1>4, <2>1, HolderFacts
<1>8. CASE x.req.op = "renew"
  <2>1. HolderOf(x.lease) = [Holders[r] EXCEPT !.until = x.lease.expires]
    <3>1. HolderOf(x.lease).ended = Holders[r].ended
      BY <1>1, <1>3, <1>8, <1>7, HolderFacts
    <3> QED BY <1>1, <1>7, <3>1, HolderChanges, HolderFacts
  <2>2. Holders' = [Holders EXCEPT ![r].until = x.lease.expires]
    BY <1>6, <2>1
  <2>3. x.lease.expires \in Ends
    BY <1>3, <1>8 DEF Ends
  <2>4. Statuses[r] \in Workable
    BY <1>1, <1>3, <1>8 DEF Statuses
  <2> QED BY <1>1, <1>5, <1>6, <2>2, <2>3, <2>4 DEF SeenExtend
<1>9. CASE x.req.op = "release"
  <2>1. HolderOf(x.lease) = [Holders[r] EXCEPT !.ended = TRUE]
    <3>1. HolderOf(x.lease).until = Holders[r].until /\ HolderOf(x.lease).ended = TRUE
      BY <1>1, <1>3, <1>9, <1>7, HolderFacts
    <3> QED BY <1>7, <3>1, HolderChanges
  <2>2. Holders' = [Holders EXCEPT ![r].ended = TRUE]
    BY <1>6, <2>1
  <2> QED BY <1>1, <1>5, <1>6, <2>2 DEF SeenEnd
<1> QED BY <1>8, <1>9 DEF Mutates

\* A guarded commit works, an unguarded one intervenes.
LEMMA CommitIsSeen ==
  ASSUME LeaseInv, NEW x \in Calls, x.pc = "sent", Rely(x), Apply(x), now' = now,
         IsCommit(x.req)
  PROVE  /\ x.req.command \in Commands /\ x.run \in Runs
         /\ SeenWork(x.req.command, x.run) \/ SeenChange(x.req.command, x.run, 0)
<1> DEFINE q == x.req.command
           r == x.run
           record == [run |-> x.req.run, status |-> x.req.status,
                      version |-> x.req.expected + 1, attempt |-> AttemptOf(x.req)]
           row == [status |-> x.req.status, version |-> x.req.expected + 1]
<1>1. /\ r \in Runs /\ q \in Commands /\ done[q] = None /\ x.req \in Requests
      /\ CommitStands(x, runs[r], leases[r])
  BY SentFacts
<1>2. /\ runs' = [runs EXCEPT ![r] = row] /\ done' = [done EXCEPT ![q] = record]
      /\ leases' = leases /\ receipts' = receipts
  BY ApplyEffects
<1>3. /\ x.req.status \in RunStatuses /\ x.req.expected + 1 \in Nat /\ x.req.run \in Runs
      /\ AttemptOf(x.req) \in Nat
  BY <1>1, RequestFacts DEF AttemptOf, Proof
<1>4. record \in CommandReceipt /\ record # None
  BY <1>3, RowsAssumption DEF CommandReceipt
<1>5. WorkOf(record) = [run |-> r, attempt |-> AttemptOf(x.req)] /\ row.status = x.req.status
  BY <1>1, <1>4 DEF WorkOf, CommitStands
<1> HIDE DEF record, row
<1>6. /\ Statuses' = [Statuses EXCEPT ![r] = x.req.status]
      /\ Works' = [Works EXCEPT ![q] = [run |-> r, attempt |-> AttemptOf(x.req)]]
      /\ Holders' = Holders /\ Answers' = Answers
  <2>1. Statuses' = [Statuses EXCEPT ![r] = row.status]
    BY <1>1, <1>2, SeenByRow
  <2>2. Works' = [Works EXCEPT ![q] = WorkOf(record)]
    BY <1>1, <1>2, SeenByRow
  <2>3. Holders' = Holders /\ Answers' = Answers
    BY <1>2, SeenByRow
  <2> QED BY <1>5, <2>1, <2>2, <2>3
<1>7. Works[q] = None /\ x.req.status \in Follows[Statuses[r]]
  BY <1>1 DEF Works, WorkOf, CommitStands, Statuses
<1>8. SeenChange(q, r, AttemptOf(x.req))
  BY <1>6, <1>7 DEF SeenChange
<1>9. CASE x.req.op = "commit"
  BY <1>1, <1>8, <1>9 DEF AttemptOf
<1>10. CASE x.req.op = "commit_with_lease"
  <2>1. /\ leases[r] # None /\ leases[r].released = None
        /\ x.req.proof.attempt = leases[r].attempt /\ runs[r].status \in Workable
    BY <1>1, <1>10 DEF CommitStands, ProofMatches
  <2>2. leases[r] \in Lease
    BY <1>1, <2>1, AllFacts DEF StoreTyped
  <2>3. /\ Holders[r] # None /\ ~Holders[r].ended
        /\ Holders[r].attempt = AttemptOf(x.req)
    BY <1>1, <1>10, <2>1, <2>2, HolderFacts DEF Holders, AttemptOf
  <2>4. Statuses[r] \in Workable
    BY <1>1, <2>1 DEF Statuses
  <2> QED BY <1>1, <1>8, <2>3, <2>4 DEF SeenWork, SeenHeld
<1> QED BY <1>1, <1>9, <1>10 DEF IsCommit

\* ImplementsAuthority: whatever calls, failures and late commits do, the tables move
\* as LeaseAuthority allows; every abstract step is the COMMIT of one transaction.
THEOREM LeasesImplementAuthority == Spec => ImplementsAuthority
<1>1. Init => Authorities!AuthorityInit
  <2> SUFFICES ASSUME Init
               PROVE  Authorities!AuthorityInit
    OBVIOUS
  <2>1. /\ Statuses = [r \in Runs |-> "queued"] /\ Holders = [r \in Runs |-> None]
        /\ Answers = [k \in Claims |-> None] /\ Works = [q \in Commands |-> None]
    BY DEF Init, Statuses, Holders, Answers, Works, HolderOf, AnswerOf, WorkOf
  <2> QED BY <2>1 DEF Init, Authorities!AuthorityInit, Statuses, Holders, Answers, Works,
          HolderOf, AnswerOf, WorkOf
<1>2. LeaseInv /\ [Next]_vars => [Authorities!AuthorityNext]_(Authorities!authorityVars)
  <2> SUFFICES ASSUME LeaseInv, [Next]_vars
               PROVE  Authorities!AuthorityNext \/ UNCHANGED Authorities!authorityVars
    OBVIOUS
  <2>1. CASE UNCHANGED <<now, store>>
    <3>1. Statuses' = Statuses /\ Holders' = Holders /\ Answers' = Answers /\ Works' = Works
      BY <2>1, SeenByRow DEF store
    <3> QED BY <2>1, <3>1 DEF Authorities!authorityVars, Statuses, Holders, Answers, Works,
            HolderOf, AnswerOf, WorkOf
  <2>2. CASE now' = now + 1 /\ now \in Nat /\ UNCHANGED store
    <3>1. Statuses' = Statuses /\ Holders' = Holders /\ Answers' = Answers /\ Works' = Works
      BY <2>2, SeenByRow DEF store
    <3>2. now' > now
      BY <2>2
    <3>3. Authorities!Pass
      BY <3>1, <3>2 DEF Authorities!Pass, Statuses, Holders, Answers, Works,
         HolderOf, AnswerOf, WorkOf
    <3> QED BY <3>3 DEF Authorities!AuthorityNext
  <2>3. ASSUME NEW x \in Calls, x.pc = "sent", Rely(x), Apply(x), now' = now
        PROVE  Authorities!AuthorityNext
    <3>1. CASE Grants(x)
      <4>1. x.req.claim \in Claims /\ x.run \in Runs /\ SeenGrant(x.req.claim, x.run)
        BY <2>3, <3>1, SentFacts, GrantIsSeen DEF Grants
      <4> QED BY <4>1, SeenIsMeant
    <3>2. CASE Declines(x)
      <4>1. x.req.claim \in Claims /\ SeenRefuse(x.req.claim)
        BY <2>3, <3>2, SentFacts, RefusalIsSeen DEF Declines
      <4> QED BY <4>1, SeenIsMeant
    <3>3. CASE Mutates(x)
      <4>1. x.run \in Runs /\ (SeenExtend(x.run) \/ SeenEnd(x.run))
        BY <2>3, <3>3, MutationIsSeen
      <4> QED BY <4>1, SeenIsMeant
    <3>4. CASE IsCommit(x.req)
      <4>1. /\ x.req.command \in Commands /\ x.run \in Runs
            /\ SeenWork(x.req.command, x.run) \/ SeenChange(x.req.command, x.run, 0)
        BY <2>3, <3>4, CommitIsSeen
      <4> QED BY <4>1, SeenIsMeant
    <3> QED BY <2>3, <3>1, <3>2, <3>3, <3>4, SentFacts
  <2> QED BY <2>1, <2>2, <2>3, StoreSteps
<1> QED BY <1>1, <1>2, LeasesStayInOrder, PTL
        DEF Spec, ImplementsAuthority, Authorities!AuthoritySpec
-----------------------------------------------------------------------------
(***************************************************************************)
(* Deadlocks.                                                              *)
(***************************************************************************)
\* Nobody waits for a call that has locked and inserted nothing, and only who asks for
\* the receipt of its command waits for one at "lock".
LEMMA NobodyWaits ==
  ASSUME NEW d \in Callers, NEW x, x.held = {}
  PROVE  /\ x.pc \notin {"lock", "receipt"} \cup WritePhases => ~WaitsFor(d, x)
         /\ x.pc = "lock" /\ WaitsFor(d, x) => call[d].pc = "arbitrate"
<1>1. x.pc \notin {"receipt"} \cup WritePhases => \A k : ~HoldsLeaseKey(x, k)
  BY DEF HoldsLeaseKey, WritePhases
<1> QED BY <1>1, KeysByPhase DEF WaitsFor, WritePhases

\* OnlyClaimsDeadlock: every transaction takes the receipt of its command, then its run,
\* then its lease; a claim that looked at a run in vain keeps it and breaks the order.
LEMMA CirclesAreOfClaims == LeaseInv => OnlyClaimsDeadlock
<1> SUFFICES ASSUME LeaseInv, NEW c \in Callers, InCircle(c),
                    ~(call[c].req.op = "claim" /\ call[c].held # {})
             PROVE  FALSE
  BY DEF OnlyClaimsDeadlock
<1>1. ASSUME NEW S \in SUBSET Callers, c \notin S,
             \A d \in S \cup {c} : \A e \in Callers \ {d} : WaitsFor(d, call[e]) => e \in S
      PROVE  FALSE
  BY <1>1 DEF InCircle
<1>2. ASSUME call[c].held = {}, call[c].pc \notin {"lock", "receipt"} \cup WritePhases
      PROVE  FALSE
  <2>1. \A d \in Callers : ~WaitsFor(d, call[c])
    BY <1>2, NobodyWaits
  <2> QED BY <1>1, <2>1
<1>3. Shaped(call[c]) /\ Stands(call[c], now, runs, leases, receipts, done)
  BY AllFacts
<1>4. ASSUME call[c].pc \notin {"wait", "lock", "store", "receipt", "no_work", "arbitrate"}
      PROVE  FALSE
  <2>1. \A e \in Callers : ~WaitsFor(c, call[e])
    BY <1>4 DEF WaitsFor
  <2> QED BY <1>1, <2>1
<1>5. CASE call[c].pc = "lock"
  <2> DEFINE S == {e \in Callers \ {c} : call[e].pc # "arbitrate"}
  <2>1. call[c].held = {}
    BY <1>3, <1>5 DEF Shaped, ShortPhases
  <2>2. ASSUME NEW d \in S \cup {c}, NEW e \in Callers \ {d}, WaitsFor(d, call[e])
        PROVE  e \in S
    <3>1. e # c
      BY <1>5, <2>1, <2>2, NobodyWaits
    <3>2. call[e].pc # "arbitrate"
      <4> SUFFICES ASSUME call[e].pc = "arbitrate"
                   PROVE  FALSE
        OBVIOUS
      <4>1. call[e].held = {}
        BY AllFacts DEF Shaped, ShortPhases
      <4> QED BY <2>2, <4>1, NobodyWaits DEF WritePhases
    <3> QED BY <3>1, <3>2
  <2>3. S \in SUBSET Callers /\ c \notin S
    OBVIOUS
  <2> HIDE DEF S
  <2> QED BY <1>1, <2>2, <2>3
<1>6. CASE call[c].pc = "arbitrate"
  BY <1>2, <1>3, <1>6 DEF Shaped, ShortPhases, WritePhases
<1>7. CASE call[c].pc \in {"wait", "no_work"}
  BY <1>2, <1>3, <1>7 DEF Shaped, ClaimPhases, WritePhases
<1>8. CASE call[c].pc \in {"store", "receipt"}
  BY <1>3, <1>8 DEF Shaped, ClaimPhases, Stands, HasRow, RowStands
<1> QED BY <1>4, <1>5, <1>6, <1>7, <1>8

\* Only claims, and only those that keep a run, are ever failed for a deadlock.
THEOREM OnlyClaimsAreDeadlocked == Spec => []OnlyClaimsDeadlock
BY LeasesStayInOrder, CirclesAreOfClaims, PTL
-----------------------------------------------------------------------------
(***************************************************************************)
(* What workers are told, when the clock never steps back, all leases last *)
(* equally long and nobody releases one.                                   *)
(***************************************************************************)
SteadyLeases == StepBack = 0 /\ (\A d, e \in Durations : d = e) /\ "release" \notin Ops

\* A lease ends no later than one granted now would.
LeasesLast ==
  \A r \in Runs : leases[r] # None =>
    leases[r].released = None /\ \A d \in Durations : leases[r].expires <= now + d

\* The receipt of the current attempt promises no more than its lease.
GrantsLast ==
  \A k \in Claims :
    (Granted(k) /\ receipts[k].attempt = leases[receipts[k].run].attempt) =>
      receipts[k].expires <= leases[receipts[k].run].expires

\* What a worker was told to start on is the current attempt, or over.
Promised(grant, ls, t) ==
  LET lease == ls[grant.run]
  IN /\ grant \in GrantRecord /\ lease # None
     /\ grant.attempt <= lease.attempt
     /\ grant.attempt = lease.attempt => grant.expires <= lease.expires
     /\ grant.attempt < lease.attempt => grant.expires <= t

Told(reply, ls, t) == (reply # None /\ reply.may_start) => Promised(reply.grant, ls, t)

\* A renewal never shortens a lease.
Lasting(x, ls, t) ==
  /\ x.pc # "idle" => x.req.op # "release"
  /\ (x.pc \in WritePhases /\ x.req.op = "renew") => x.lease.expires >= ls[x.run].expires
  /\ Told(x.reply, ls, t)

OverlapInv ==
  /\ LeasesLast /\ GrantsLast
  /\ \A c \in Callers : Lasting(call[c], leases, now)
  /\ \A o \in orphans : Lasting(o, leases, now)

\* How the lease of a run goes on.
LeaseOn(old, new, t) ==
  \/ new = old
  \/ /\ new # None
     /\ \/ old = None
        \/ new.attempt = old.attempt /\ new.expires >= old.expires
        \/ new.attempt = old.attempt + 1 /\ old.expires <= t

\* What a worker was told outlives the moves of its lease.
LEMMA ToldSurvives ==
  ASSUME NEW reply, NEW ls \in [Runs -> Lease \cup {None}],
         NEW ms \in [Runs -> Lease \cup {None}], NEW t \in Nat,
         \A r \in Runs : LeaseOn(ls[r], ms[r], t), Told(reply, ls, t)
  PROVE  Told(reply, ms, t)
<1> SUFFICES ASSUME reply # None, reply.may_start
             PROVE  Told(reply, ms, t)
  BY DEF Told
<1> DEFINE grant == reply.grant
           old == ls[grant.run]
           new == ms[grant.run]
<1>1. /\ grant \in GrantRecord /\ old # None /\ grant.attempt <= old.attempt
      /\ grant.attempt = old.attempt => grant.expires <= old.expires
      /\ grant.attempt < old.attempt => grant.expires <= t
  BY DEF Told, Promised
<1>2. grant.run \in Runs /\ grant.attempt \in Nat /\ grant.expires \in Nat
  BY <1>1 DEF GrantRecord
<1>3. old \in Lease /\ new \in Lease \cup {None} /\ LeaseOn(old, new, t)
  BY <1>1, <1>2
<1>4. new \in Lease /\ new # None
  BY <1>1, <1>3 DEF LeaseOn
<1>5. /\ old.attempt \in Nat /\ old.expires \in Nat
      /\ new.attempt \in Nat /\ new.expires \in Nat
  BY <1>3, <1>4 DEF Lease
<1> HIDE DEF old, new, grant
<1>6. /\ grant.attempt <= new.attempt
      /\ grant.attempt = new.attempt => grant.expires <= new.expires
      /\ grant.attempt < new.attempt => grant.expires <= t
  BY <1>1, <1>2, <1>3, <1>5 DEF LeaseOn
<1> QED BY <1>1, <1>4, <1>6 DEF Told, Promised, grant, new

\* A commit moves leases on, and neither leases nor receipts promise more than before.
LEMMA ApplyLasts ==
  ASSUME SteadyLeases, LeaseInv, OverlapInv, now' = now,
         NEW x \in Calls, x.pc = "sent", Rely(x), Apply(x), Lasting(x, leases, now)
  PROVE  /\ \A r \in Runs : LeaseOn(leases[r], leases'[r], now)
         /\ LeasesLast' /\ GrantsLast'
<1> DEFINE s == x.run
           k0 == x.req.claim
           old == leases[s]
<1>1. StoreTyped /\ StoreTyped' /\ StoreGoesOn(x) /\ now \in Nat
  BY ApplyGoesOn, AllFacts
<1>2. ASSUME Grants(x) \/ Mutates(x)
      PROVE  /\ s \in Runs /\ x.lease \in Lease /\ x.lease # None
             /\ leases'[s] = x.lease /\ \A r \in Runs \ {s} : leases'[r] = leases[r]
  <2>1. leases' = [leases EXCEPT ![s] = x.lease] /\ s \in Runs /\ x.lease \in Lease
    BY <1>2, ApplyEffects, SentFacts
  <2> QED BY <1>1, <2>1, RowsAssumption DEF StoreTyped
<1>3. ASSUME Declines(x) \/ IsCommit(x.req)
      PROVE  leases' = leases
  BY <1>3, ApplyEffects
<1>4. Mutates(x) => x.req.op = "renew" /\ x.lease.expires >= old.expires
  BY DEF Mutates, Lasting, WritePhases
<1>5. ASSUME Grants(x) \/ Mutates(x)
      PROVE  /\ LeaseOn(old, x.lease, now) /\ x.lease.released = None
             /\ \A d \in Durations : x.lease.expires <= now + d
  <2>1. Grants(x) => /\ old \in Lease \cup {None} /\ MayBeClaimed(old, now)
                     /\ x.lease.attempt = (IF old = None THEN 1 ELSE old.attempt + 1)
                     /\ x.lease.released = None
                     /\ \E at \in 0 .. now, d \in Durations : x.lease.expires = at + d
    BY NewLeaseFacts
  <2>2. Mutates(x) => /\ old \in Lease /\ x.lease.attempt = old.attempt
                      /\ x.lease.released = None
                      /\ \E at \in 0 .. now, d \in Durations : x.lease.expires = at + d
    BY <1>4, NewLeaseFacts
  <2>3. PICK at \in 0 .. now, d \in Durations : x.lease.expires = at + d
    BY <1>5, <2>1, <2>2
  <2>4. \A e \in Durations : x.lease.expires <= now + e
    BY <1>1, <2>3, LeasesAssumption DEF SteadyLeases
  <2>5. old # None => old.released = None
    BY <1>2, <1>5 DEF OverlapInv, LeasesLast
  <2>6. CASE Grants(x)
    BY <1>2, <1>5, <2>1, <2>4, <2>5, <2>6 DEF LeaseOn, MayBeClaimed, Lapsed
  <2>7. CASE Mutates(x)
    BY <1>2, <1>4, <1>5, <2>2, <2>4, <2>7 DEF LeaseOn
  <2> QED BY <1>5, <2>6, <2>7
<1>6. \A r \in Runs : LeaseOn(leases[r], leases'[r], now)
  <2>1. CASE Grants(x) \/ Mutates(x)
    BY <1>2, <1>5, <2>1 DEF LeaseOn
  <2>2. CASE Declines(x) \/ IsCommit(x.req)
    BY <1>3, <2>2 DEF LeaseOn
  <2> QED BY <2>1, <2>2, SentFacts
<1>7. LeasesLast'
  <2>1. CASE Grants(x) \/ Mutates(x)
    BY <1>2, <1>5, <2>1 DEF LeasesLast, OverlapInv
  <2>2. CASE Declines(x) \/ IsCommit(x.req)
    BY <1>3, <2>2 DEF LeasesLast, OverlapInv
  <2> QED BY <2>1, <2>2, SentFacts
<1>8. ASSUME NEW k \in Claims, Granted(k)', receipts'[k].attempt = leases'[receipts'[k].run].attempt
      PROVE  receipts'[k].expires <= leases'[receipts'[k].run].expires
  <2>1. CASE receipts'[k] = receipts[k]
    <3> DEFINE r == receipts[k].run
    <3>1. Granted(k) /\ receipts[k] \in Receipt
      BY <1>1, <1>8, <2>1 DEF Granted, StoreTyped
    <3>2. r \in Runs /\ receipts[k].attempt \in Nat /\ receipts[k].expires \in Nat
      BY <3>1, ClaimedFacts DEF Granted
    <3>3. leases[r] # None /\ receipts[k].attempt <= leases[r].attempt
      BY <3>1 DEF LeaseInv, ClaimsAreHonest
    <3>4. leases[r] \in Lease /\ leases'[r] \in Lease \cup {None} /\ LeaseOn(leases[r], leases'[r], now)
      BY <1>1, <1>6, <3>2, <3>3 DEF StoreTyped
    <3>5. leases[r].attempt \in Nat /\ leases[r].expires \in Nat
      BY <3>4 DEF Lease
    <3>6. leases'[r] \in Lease /\ leases'[r].expires \in Nat
      BY <3>4, <3>3 DEF LeaseOn, Lease
    <3>7. receipts[k].attempt = leases[r].attempt => receipts[k].expires <= leases[r].expires
      BY <3>1 DEF OverlapInv, GrantsLast
    <3>8. receipts[k].attempt = leases'[r].attempt
      BY <1>8, <2>1
    <3> HIDE DEF r
    <3>9. receipts[k].expires <= leases'[r].expires
      BY <3>2, <3>3, <3>4, <3>5, <3>6, <3>7, <3>8 DEF LeaseOn
    <3> QED BY <2>1, <3>9 DEF r
  <2>2. CASE receipts'[k] # receipts[k]
    <3>1. x.req.op = "claim" /\ k0 = k
      BY <1>1, <2>2 DEF StoreGoesOn, HoldsReceiptKey
    <3>2. Grants(x)
      <4> SUFFICES ASSUME Declines(x)
                   PROVE  FALSE
        BY <3>1, SentFacts DEF Grants, Declines
      <4>1. receipts' = [receipts EXCEPT ![k] = NoWorkReceipt(x.req)] /\ x.req \in ClaimRequest
        BY <3>1, ApplyEffects, SentFacts
      <4>2. receipts'[k] = NoWorkReceipt(x.req)
        BY <1>1, <4>1 DEF StoreTyped
      <4> QED BY <1>8, <4>1, <4>2, ReceiptFacts DEF Granted
    <3>3. /\ receipts' = [receipts EXCEPT ![k] = ClaimedReceipt(x.req, s, x.lease)]
          /\ x.req \in ClaimRequest
      BY <3>1, <3>2, ApplyEffects, SentFacts
    <3>4. receipts'[k] = ClaimedReceipt(x.req, s, x.lease)
      BY <1>1, <3>3 DEF StoreTyped
    <3>5. receipts'[k].run = s /\ receipts'[k].expires = x.lease.expires /\ leases'[s] = x.lease
      BY <1>2, <3>2, <3>3, <3>4, ReceiptFacts
    <3>6. x.lease.expires \in Nat
      BY <1>2, <3>2 DEF Lease
    <3> QED BY <3>5, <3>6
  <2> QED BY <2>1, <2>2
<1>9. GrantsLast'
  BY <1>8 DEF GrantsLast
<1> QED BY <1>6, <1>7, <1>9

\* What others were told, and the renewals under way, survive a commit of x.
LEMMA LastingSurvives ==
  ASSUME SteadyLeases, LeaseInv, OverlapInv, now' = now,
         NEW x \in Calls, x.pc = "sent", Rely(x), Apply(x), Lasting(x, leases, now),
         NEW y \in Calls, Rely(y), Apart(x, y), Lasting(y, leases, now)
  PROVE  Lasting(y, leases', now')
<1>1. StoreTyped /\ StoreTyped' /\ StoreGoesOn(x) /\ now \in Nat
  BY ApplyGoesOn, AllFacts
<1>2. Told(y.reply, leases', now)
  BY <1>1, ApplyLasts, ToldSurvives DEF StoreTyped, Lasting
<1>3. ASSUME y.pc \in WritePhases, y.req.op = "renew"
      PROVE  leases'[y.run] = leases[y.run]
  <2>1. RowStands(y, now, runs[y.run], leases[y.run])
    BY <1>3 DEF Rely, Stands, Shaped, HasRow
  <2>2. y.run \in Runs \ x.held
    BY <2>1 DEF RowStands, Apart
  <2> QED BY <1>1, <2>2 DEF StoreGoesOn
<1> QED BY <1>2, <1>3 DEF Lasting

\* A step of c by which c is told nothing to start on and decides on no renewal.
Quiet(c) ==
  /\ \A d \in Callers \ {c} : call'[d] = call[d]
  /\ \/ call'[c].pc = "idle" /\ (call'[c].reply # None => ~call'[c].reply.may_start)
     \/ /\ call[c].pc # "idle" /\ call'[c].req = call[c].req
        /\ call'[c].reply \in {None, call[c].reply}
        /\ (call'[c].pc \in WritePhases /\ call[c].req.op = "renew") =>
             /\ call[c].pc \in WritePhases
             /\ call'[c].run = call[c].run /\ call'[c].lease = call[c].lease

\* A quiet step takes nothing from anybody that the argument counts on: what the
\* records and the calls were told to last until stays so.
LEMMA QuietStep ==
  ASSUME LeaseInv, OverlapInv, NEW c \in Callers, Quiet(c),
         now' = now, UNCHANGED store, orphans' \subseteq orphans \cup {call[c]}
  PROVE  OverlapInv'
<1>1. runs' = runs /\ leases' = leases /\ receipts' = receipts /\ done' = done
  BY DEF store
<1>2. Lasting(call[c], leases, now)
  BY DEF OverlapInv
<1>3. Lasting(call'[c], leases, now)
  BY <1>2 DEF Quiet, Lasting, Told, WritePhases
<1>4. \A d \in Callers : Lasting(call'[d], leases, now)
  BY <1>3 DEF Quiet, OverlapInv
<1> QED BY <1>1, <1>4 DEF OverlapInv, LeasesLast, GrantsLast, Granted, Lasting

\* Refusals tell nobody to start.
LEMMA RefuseIsQuiet ==
  ASSUME LeaseInv, NEW c \in Callers, NEW code, Refuse(c, code)
  PROVE  Quiet(c)
<1> DEFINE answer == Answer(call[c].req, code, FALSE, None)
           reply == IF call[c].req.op \in Remembered THEN answer ELSE None
           y == [AtRest EXCEPT !.reply = reply]
<1>1. call' = [call EXCEPT ![c] = y]
  BY DEF Refuse, Reply
<1>2. y.pc = "idle" /\ y.reply = reply
  BY DEF AtRest
<1>3. answer.may_start = FALSE
  BY DEF Answer
<1> HIDE DEF y, answer
<1>4. call'[c] = y /\ \A d \in Callers \ {c} : call'[d] = call[d]
  BY <1>1, AllFacts
<1> QED BY <1>2, <1>3, <1>4 DEF Quiet

\* A call that goes on, to no decision.
LEMMA GoOnIsQuiet ==
  ASSUME LeaseInv, NEW c \in Callers, call[c].pc # "idle", NEW y,
         call' = [call EXCEPT ![c] = y],
         y.req = call[c].req, y.reply \in {None, call[c].reply},
         y.pc \notin WritePhases \/ call[c].req.op # "renew"
  PROVE  Quiet(c)
<1>1. call'[c] = y /\ \A d \in Callers \ {c} : call'[d] = call[d]
  BY AllFacts
<1> QED BY <1>1 DEF Quiet

\* What becomes of a call of which some fields change.
LEMMA EditedCall ==
  ASSUME NEW x \in Calls, NEW pc, NEW run, NEW held, NEW seen, NEW at, NEW lease
  PROVE  /\ LET y == [x EXCEPT !.pc = pc] IN y.pc = pc /\ y.req = x.req /\ y.reply = x.reply
         /\ LET y == [x EXCEPT !.at = at, !.pc = pc]
            IN y.pc = pc /\ y.req = x.req /\ y.reply = x.reply
         /\ LET y == [x EXCEPT !.pc = pc, !.seen = seen]
            IN y.pc = pc /\ y.req = x.req /\ y.reply = x.reply
         /\ LET y == [x EXCEPT !.pc = pc, !.run = run, !.seen = seen]
            IN y.pc = pc /\ y.req = x.req /\ y.reply = x.reply
         /\ LET y == [x EXCEPT !.run = run, !.seen = seen]
            IN y.pc = x.pc /\ y.req = x.req /\ y.reply = x.reply
         /\ LET y == [x EXCEPT !.pc = pc, !.run = run, !.held = held, !.seen = seen]
            IN y.pc = pc /\ y.req = x.req /\ y.reply = x.reply
         /\ LET y == [x EXCEPT !.pc = pc, !.at = at, !.lease = lease]
            IN y.pc = pc /\ y.req = x.req /\ y.reply = x.reply
         /\ LET y == [x EXCEPT !.pc = pc, !.at = at, !.run = run]
            IN y.pc = pc /\ y.req = x.req /\ y.reply = x.reply
         /\ LET y == [x EXCEPT !.pc = pc, !.run = run, !.held = held]
            IN y.pc = pc /\ y.req = x.req /\ y.reply = x.reply
BY DEF Calls

\* A call that only goes on is quiet, unless it is a renewal about to commit.
LEMMA GotoIsQuiet ==
  ASSUME LeaseInv, NEW c \in Callers, call[c].pc # "idle", NEW pc, Goto(c, pc),
         pc \notin WritePhases \/ call[c].req.op # "renew"
  PROVE  Quiet(c)
<1> DEFINE y == [call[c] EXCEPT !.pc = pc]
<1>1. call' = [call EXCEPT ![c] = y]
  BY AllFacts DEF Goto
<1>2. y.pc = pc /\ y.req = call[c].req /\ y.reply = call[c].reply
  BY AllFacts, EditedCall
<1> HIDE DEF y
<1> QED BY <1>1, <1>2, GoOnIsQuiet

\* A lost race is quiet.
LEMMA LoseRaceIsQuiet ==
  ASSUME LeaseInv, NEW c \in Callers, call[c].pc # "idle", LoseRace(c)
  PROVE  Quiet(c)
<1> DEFINE y == [AtRest EXCEPT !.pc = "race", !.req = call[c].req]
<1>1. call' = [call EXCEPT ![c] = y]
  BY DEF LoseRace
<1>2. y.pc = "race" /\ y.req = call[c].req /\ y.reply = None
  BY DEF AtRest
<1> HIDE DEF y
<1> QED BY <1>1, <1>2, GoOnIsQuiet DEF WritePhases

\* Locking a row is quiet.
LEMMA LockIsQuiet ==
  ASSUME LeaseInv, NEW c \in Callers, call[c].pc # "idle", NEW r, Lock(c, r)
  PROVE  Quiet(c)
<1> DEFINE y == [call[c] EXCEPT !.pc = "recheck", !.run = r, !.held = call[c].held \cup {r},
                                !.seen = {}]
<1>1. call' = [call EXCEPT ![c] = y]
  BY AllFacts DEF Lock
<1>2. y.pc = "recheck" /\ y.req = call[c].req /\ y.reply = call[c].reply
  BY AllFacts, EditedCall
<1> HIDE DEF y
<1> QED BY <1>1, <1>2, GoOnIsQuiet DEF WritePhases

\* All steps but those that decide on a renewal or tell what a lease is.
LEMMA ReadClockIsQuiet ==
  ASSUME LeaseInv, NEW c \in Callers, ReadClock(c)
  PROVE  Quiet(c)
<1> DEFINE req == call[c].req
           lost == call[c].pc = "race"
<1>1. PICK t \in Readings :
        LET age == IF req.op = "claim" THEN ClaimAge(req.claim, t) ELSE "valid"
        IN IF age # "valid"
           THEN Refuse(c, age)
           ELSE call' = [call EXCEPT ![c].at = t,
                                     ![c].pc = IF req.op = "claim"
                                               THEN (IF lost THEN "reload" ELSE "load")
                                               ELSE "evaluate"]
  BY DEF ReadClock
<1> DEFINE age == IF req.op = "claim" THEN ClaimAge(req.claim, t) ELSE "valid"
<1>2. CASE age # "valid"
  BY <1>1, <1>2, RefuseIsQuiet
<1>3. CASE age = "valid"
  <2> DEFINE pc == IF req.op = "claim" THEN (IF lost THEN "reload" ELSE "load") ELSE "evaluate"
             y == [call[c] EXCEPT !.at = t, !.pc = pc]
  <2>1. call' = [call EXCEPT ![c].at = t, ![c].pc = pc]
    BY <1>1, <1>3
  <2>2. pc \notin WritePhases /\ call[c].pc # "idle"
    BY DEF WritePhases, ReadClock
  <2> HIDE DEF pc
  <2>3. call' = [call EXCEPT ![c] = y]
    BY <2>1, AllFacts
  <2>4. y.pc = pc /\ y.req = call[c].req /\ y.reply = call[c].reply
    BY AllFacts, EditedCall
  <2> HIDE DEF y
  <2> QED BY <2>2, <2>3, <2>4, GoOnIsQuiet
<1> QED BY <1>2, <1>3

\* Selecting is quiet.
LEMMA SelectIsQuiet ==
  ASSUME LeaseInv, NEW c \in Callers, Select(c)
  PROVE  Quiet(c)
<1> DEFINE eligible == Eligible(call[c].at)
<1>1. call[c].pc # "idle"
  BY DEF Select
<1>2. CASE call' = [call EXCEPT ![c].pc = "skip_locked", ![c].seen = eligible]
  <2> DEFINE y == [call[c] EXCEPT !.pc = "skip_locked", !.seen = eligible]
  <2> HIDE DEF eligible
  <2>1. call' = [call EXCEPT ![c] = y]
    BY <1>2, AllFacts
  <2>2. y.pc = "skip_locked" /\ y.req = call[c].req /\ y.reply = call[c].reply
    BY AllFacts, EditedCall
  <2> HIDE DEF y
  <2> QED BY <1>1, <2>1, <2>2, GoOnIsQuiet DEF WritePhases
<1>3. CASE Goto(c, "no_work")
  BY <1>1, <1>3, GotoIsQuiet DEF WritePhases
<1>4. ASSUME NEW r \in eligible,
             call' = [call EXCEPT ![c].pc = "wait", ![c].run = r, ![c].seen = eligible \ {r}]
      PROVE  Quiet(c)
  <2> DEFINE y == [call[c] EXCEPT !.pc = "wait", !.run = r, !.seen = eligible \ {r}]
  <2> HIDE DEF eligible
  <2>1. call' = [call EXCEPT ![c] = y]
    BY <1>4, AllFacts
  <2>2. y.pc = "wait" /\ y.req = call[c].req /\ y.reply = call[c].reply
    BY AllFacts, EditedCall
  <2> HIDE DEF y
  <2> QED BY <1>1, <2>1, <2>2, GoOnIsQuiet DEF WritePhases
<1> QED BY <1>2, <1>3, <1>4 DEF Select

\* The fast path is quiet.
LEMMA SkipLockedIsQuiet ==
  ASSUME LeaseInv, NEW c \in Callers, SkipLocked(c)
  PROVE  Quiet(c)
<1>1. call[c].pc # "idle"
  BY DEF SkipLocked
<1>2. CASE call' = [call EXCEPT ![c].pc = "probe", ![c].seen = {}]
  <2> DEFINE y == [call[c] EXCEPT !.pc = "probe", !.seen = {}]
  <2>1. call' = [call EXCEPT ![c] = y]
    BY <1>2, AllFacts
  <2>2. y.pc = "probe" /\ y.req = call[c].req /\ y.reply = call[c].reply
    BY AllFacts, EditedCall
  <2> HIDE DEF y
  <2> QED BY <1>1, <2>1, <2>2, GoOnIsQuiet DEF WritePhases
<1>3. CASE \E r \in call[c].seen : Lock(c, r)
  BY <1>1, <1>3, LockIsQuiet
<1> QED BY <1>2, <1>3 DEF SkipLocked

\* The slow path is quiet.
LEMMA ProbeIsQuiet ==
  ASSUME LeaseInv, NEW c \in Callers, ProbeGetsRow(c)
  PROVE  Quiet(c)
<1>1. call[c].pc = "wait"
  BY DEF ProbeGetsRow
<1>2. CASE Lock(c, call[c].run)
  BY <1>1, <1>2, LockIsQuiet
<1>3. CASE Goto(c, "no_work")
  BY <1>1, <1>3, GotoIsQuiet DEF WritePhases
<1>4. ASSUME NEW next \in call[c].seen,
             call' = [call EXCEPT ![c].run = next, ![c].seen = call[c].seen \ {next}]
      PROVE  Quiet(c)
  <2> DEFINE y == [call[c] EXCEPT !.run = next, !.seen = call[c].seen \ {next}]
  <2>1. call' = [call EXCEPT ![c] = y]
    BY <1>4, AllFacts
  <2>2. y.pc = call[c].pc /\ y.req = call[c].req /\ y.reply = call[c].reply
    BY AllFacts, EditedCall
  <2> HIDE DEF y
  <2> QED BY <1>1, <2>1, <2>2, GoOnIsQuiet DEF WritePhases
<1> QED BY <1>2, <1>3, <1>4 DEF ProbeGetsRow

\* Looking at the lease again is quiet.
LEMMA RecheckIsQuiet ==
  ASSUME LeaseInv, NEW c \in Callers, Recheck(c)
  PROVE  Quiet(c)
<1>1. call[c].pc # "idle"
  BY DEF Recheck
<1>3. ASSUME NEW t, call' = [call EXCEPT ![c].pc = "select", ![c].at = t, ![c].run = None]
      PROVE  Quiet(c)
  <2> DEFINE y == [call[c] EXCEPT !.pc = "select", !.at = t, !.run = None]
  <2>1. call' = [call EXCEPT ![c] = y]
    BY <1>3, AllFacts
  <2>2. y.pc = "select" /\ y.req = call[c].req /\ y.reply = call[c].reply
    BY AllFacts, EditedCall
  <2> HIDE DEF y
  <2> QED BY <1>1, <2>1, <2>2, GoOnIsQuiet DEF WritePhases
<1>4. PICK t \in Readings :
        \/ call' = [call EXCEPT ![c].pc = "store", ![c].at = 0,
                                ![c].lease = NextLease(leases[call[c].run], call[c].req, c, t)]
        \/ call' = [call EXCEPT ![c].pc = "select", ![c].at = t, ![c].run = None]
  BY DEF Recheck
<1>5. CASE call' = [call EXCEPT ![c].pc = "select", ![c].at = t, ![c].run = None]
  BY <1>3, <1>5
<1>6. CASE call' = [call EXCEPT ![c].pc = "store", ![c].at = 0,
                                ![c].lease = NextLease(leases[call[c].run], call[c].req, c, t)]
  <2> DEFINE lease == NextLease(leases[call[c].run], call[c].req, c, t)
             y == [call[c] EXCEPT !.pc = "store", !.at = 0, !.lease = lease]
  <2> HIDE DEF lease
  <2>1. call' = [call EXCEPT ![c] = y]
    BY <1>6, AllFacts DEF lease
  <2>2. y.pc = "store" /\ y.req = call[c].req /\ y.reply = call[c].reply
    BY AllFacts, EditedCall
  <2> HIDE DEF y
  <2> QED BY <1>1, <2>1, <2>2, GoOnIsQuiet DEF WritePhases
<1> QED BY <1>4, <1>5, <1>6

\* The steps on receipts and lease rows are quiet.
LEMMA StoringIsQuiet ==
  ASSUME LeaseInv, NEW c \in Callers, LoadReceipt(c) \/ StoreLease(c) \/ InsertReceipt(c)
  PROVE  Quiet(c)
<1>1. call[c].pc \in {"load", "reload", "store", "receipt", "no_work"}
  BY DEF LoadReceipt, StoreLease, InsertReceipt
<1>2. call[c].pc # "idle" /\ call[c].req.op = "claim"
  BY <1>1, ClaimCallFacts DEF ClaimPhases
<1>3. \/ \E code : Refuse(c, code)
      \/ LoseRace(c)
      \/ \E pc \in {"select", "replay", "receipt", "write"} : Goto(c, pc)
  BY DEF LoadReceipt, StoreLease, InsertReceipt
<1> QED BY <1>2, <1>3, RefuseIsQuiet, LoseRaceIsQuiet, GotoIsQuiet

\* The decisions of commits are quiet.
LEMMA CommittingIsQuiet ==
  ASSUME LeaseInv, NEW c \in Callers, ArbitrateCommit(c) \/ LockForCommit(c)
  PROVE  Quiet(c)
<1>1. call[c].pc \in {"arbitrate", "lock"} /\ IsCommit(call[c].req)
  BY AllFacts DEF ArbitrateCommit, LockForCommit, Shaped
<1>2. call[c].pc # "idle" /\ call[c].req.op # "renew"
  BY <1>1 DEF IsCommit
<1>3. CASE \E code : Refuse(c, code)
  BY <1>3, RefuseIsQuiet
<1>4. CASE Goto(c, "lock")
  BY <1>2, <1>4, GotoIsQuiet
<1>6. CASE call' = [call EXCEPT ![c].pc = "write", ![c].run = call[c].req.run,
                                ![c].held = {call[c].req.run}]
  <2> DEFINE r == call[c].req.run
             y == [call[c] EXCEPT !.pc = "write", !.run = r, !.held = {r}]
  <2> HIDE DEF r
  <2>1. call' = [call EXCEPT ![c] = y]
    BY <1>6, AllFacts DEF r
  <2>2. y.pc = "write" /\ y.req = call[c].req /\ y.reply = call[c].reply
    BY AllFacts, EditedCall
  <2> HIDE DEF y
  <2> QED BY <1>2, <2>1, <2>2, GoOnIsQuiet
<1>7. ArbitrateCommit(c) => Goto(c, "lock") \/ \E code : Refuse(c, code)
  BY DEF ArbitrateCommit
<1>8. LockForCommit(c) =>
        \/ \E code : Refuse(c, code)
        \/ call' = [call EXCEPT ![c].pc = "write", ![c].run = call[c].req.run,
                                ![c].held = {call[c].req.run}]
  BY DEF LockForCommit
<1> QED BY <1>3, <1>4, <1>6, <1>7, <1>8

\* Sending COMMIT is quiet.
LEMMA SendCommitIsQuiet ==
  ASSUME LeaseInv, NEW c \in Callers, SendCommit(c)
  PROVE  Quiet(c)
<1> DEFINE y == [call[c] EXCEPT !.pc = "sent"]
<1>1. call' = [call EXCEPT ![c] = y] /\ call[c].pc = "write"
  BY AllFacts DEF SendCommit, Goto
<1>2. y.req = call[c].req /\ y.reply = call[c].reply /\ y.run = call[c].run
      /\ y.lease = call[c].lease
  BY AllFacts DEF Calls
<1> HIDE DEF y
<1>3. call'[c] = y /\ \A d \in Callers \ {c} : call'[d] = call[d]
  BY <1>1, AllFacts
<1> QED BY <1>1, <1>2, <1>3 DEF Quiet, WritePhases

\* A call is told something that stands.
LEMMA TellStep ==
  ASSUME LeaseInv, OverlapInv, NEW c \in Callers, now' = now, UNCHANGED store,
         orphans' = orphans, NEW code, NEW may_start \in BOOLEAN, NEW grant,
         Reply(c, code, may_start, grant), may_start => Promised(grant, leases, now)
  PROVE  OverlapInv'
<1> DEFINE answer == Answer(call[c].req, code, may_start, grant)
           reply == IF call[c].req.op \in Remembered THEN answer ELSE None
           y == [AtRest EXCEPT !.reply = reply]
<1>1. runs' = runs /\ leases' = leases /\ receipts' = receipts /\ done' = done
  BY DEF store
<1>2. call' = [call EXCEPT ![c] = y]
  BY DEF Reply
<1>3. y.pc = "idle" /\ y.reply = reply
  BY DEF AtRest
<1>4. answer.may_start = may_start /\ answer.grant = grant
  BY DEF Answer
<1> HIDE DEF y, answer
<1>5. call'[c] = y /\ \A d \in Callers \ {c} : call'[d] = call[d]
  BY <1>2, AllFacts
<1>6. Lasting(y, leases, now)
  BY <1>3, <1>4 DEF Lasting, Told, WritePhases
<1>7. \A d \in Callers : Lasting(call'[d], leases, now)
  BY <1>5, <1>6 DEF OverlapInv
<1> QED BY <1>1, <1>7 DEF OverlapInv, LeasesLast, GrantsLast, Granted, Lasting

\* The lease a proof matches is one that may be told.
LEMMA LeaseIsPromised ==
  ASSUME LeaseInv, NEW r \in Runs, leases[r] # None
  PROVE  Promised(GrantOfLease(r, leases[r]), leases, now)
<1>1. leases[r] \in Lease
  BY AllFacts DEF StoreTyped
<1>2. /\ leases[r].attempt \in Nat /\ leases[r].version \in Nat /\ leases[r].expires \in Nat
  BY <1>1 DEF Lease
<1> QED BY <1>2 DEF Promised, GrantOfLease, GrantOf, GrantRecord

\* Authority is told of the lease that is there.
LEMMA AuthorityTells ==
  ASSUME LeaseInv, OverlapInv, NEW c \in Callers, now' = now, UNCHANGED store,
         orphans' = orphans, NEW status, NEW at, call[c].req.proof.run \in Runs,
         LET p == call[c].req.proof
             lease == leases[p.run]
         IN ReplyAuthority(c, Authority(p, lease, status, at), lease)
  PROVE  OverlapInv'
<1> DEFINE p == call[c].req.proof
           lease == leases[p.run]
           code == Authority(p, lease, status, at)
           grant == IF lease # None /\ ProofMatches(p, lease)
                    THEN GrantOfLease(p.run, lease) ELSE None
           may_start == code = "authoritative"
<1>1. Reply(c, code, may_start, grant)
  BY DEF ReplyAuthority
<1>2. ASSUME may_start
      PROVE  Promised(grant, leases, now)
  <2>1. lease # None /\ ProofMatches(p, lease)
    BY <1>2, AuthorityFacts
  <2>2. grant = GrantOfLease(p.run, lease)
    BY <2>1
  <2> QED BY <2>1, <2>2, LeaseIsPromised
<1>3. may_start \in BOOLEAN
  OBVIOUS
<1> HIDE DEF code, grant, may_start
<1> QED BY <1>1, <1>2, <1>3, TellStep

\* A replayed grant is told only while it is the current one.
LEMMA ReplayLasts ==
  ASSUME LeaseInv, OverlapInv, NEW c \in Callers, ReplayClaim(c)
  PROVE  OverlapInv'
<1> DEFINE k == call[c].req.claim
           stored == receipts[k]
           grant == GrantOf(stored.run, stored.attempt, stored.version, stored.expires)
           authority == Authority(ProofOf(k, stored), leases[stored.run],
                                  runs[stored.run].status, call[c].at)
           may_start == authority = "authoritative"
<1>1. call[c].pc = "replay" /\ now' = now /\ UNCHANGED store /\ orphans' = orphans
  BY DEF ReplayClaim
<1>2. CASE Refuse(c, "no_work")
  BY <1>1, <1>2, RefuseIsQuiet, QuietStep
<1>3. CASE Reply(c, "claimed", may_start, grant) /\ stored.outcome # "no_work"
  <2>1. k \in Claims /\ stored # None
    BY <1>1, ClaimCallFacts, AllFacts DEF ClaimPhases, Stands
  <2>2. stored \in Receipt
    BY <2>1, AllFacts DEF StoreTyped
  <2>3. stored.outcome = "claimed" /\ Granted(k)
    BY <1>3, <2>1, <2>2 DEF Receipt, Granted
  <2>4. /\ stored.run \in Runs /\ stored.attempt \in Nat /\ stored.version \in Nat
        /\ stored.expires \in Nat
    BY <2>2, <2>3, ClaimedFacts
  <2>5. ASSUME may_start
        PROVE  Promised(grant, leases, now)
    <3>1. leases[stored.run] # None /\ ProofMatches(ProofOf(k, stored), leases[stored.run])
      BY <2>5, AuthorityFacts
    <3>2. leases[stored.run].attempt = stored.attempt
      BY <3>1 DEF ProofMatches, ProofOf
    <3>3. stored.expires <= leases[stored.run].expires
      BY <2>1, <2>3, <3>2 DEF OverlapInv, GrantsLast
    <3>4. grant \in GrantRecord /\ grant.run = stored.run /\ grant.attempt = stored.attempt
          /\ grant.expires = stored.expires
      BY <2>4 DEF GrantOf, GrantRecord
    <3> HIDE DEF grant, stored
    <3> QED BY <2>4, <3>1, <3>2, <3>3, <3>4 DEF Promised
  <2>6. may_start \in BOOLEAN
    OBVIOUS
  <2> HIDE DEF may_start, grant
  <2> QED BY <1>1, <1>3, <2>5, <2>6, TellStep
<1> QED BY <1>2, <1>3 DEF ReplayClaim

\* get_authority tells of the lease that is there.
LEMMA EvaluateLasts ==
  ASSUME LeaseInv, OverlapInv, NEW c \in Callers, Evaluate(c)
  PROVE  OverlapInv'
<1>1. call[c].req \in AuthorityRequest
  BY AllFacts, RequestFacts DEF Evaluate, Shaped
<1>2. call[c].req.proof.run \in Runs
  BY <1>1 DEF AuthorityRequest, Proof
<1> QED BY <1>2, AuthorityTells DEF Evaluate

\* A renewal is decided by the time the clock shows: it does not shorten the lease.
LEMMA DecideMutationLasts ==
  ASSUME SteadyLeases, LeaseInv, OverlapInv, NEW c \in Callers, DecideMutation(c)
  PROVE  OverlapInv'
<1> DEFINE x == call[c]
           p == x.req.proof
           r == p.run
           lease == leases[r]
           status == runs[r].status
<1>1. /\ x.pc = "lock" /\ x.req.op \in {"renew", "release"}
      /\ now' = now /\ UNCHANGED store /\ orphans' = orphans
  BY DEF DecideMutation
<1>2. x.req.op = "renew"
  BY <1>1 DEF OverlapInv, Lasting
<1>3. x.req \in RenewRequest
  BY <1>1, <1>2, AllFacts, RequestFacts DEF Shaped
<1>4. r \in Runs /\ x.req.duration \in Durations
  BY <1>3 DEF RenewRequest, Proof
<1>5. now \in Nat /\ lease \in Lease \cup {None}
  BY <1>4, AllFacts DEF StoreTyped
<1>6. ASSUME NEW code, Refuse(c, code)
      PROVE  OverlapInv'
  BY <1>1, <1>6, RefuseIsQuiet, QuietStep
<1>7. CASE lease = None
  BY <1>6, <1>7 DEF DecideMutation
<1>8. CASE lease # None
  <2> DEFINE row(t) == RenewedLease(lease, x.req.duration, t)
  <2>1. PICK t \in Readings :
          \/ /\ MayRenew(p, x.req.expected, lease, status, t)
             /\ \/ /\ RowAllowed(row(t))
                   /\ call' = [call EXCEPT ![c].pc = "write", ![c].run = r,
                                           ![c].held = {r}, ![c].lease = row(t)]
                \/ Refuse(c, "storage_unavailable")
          \/ ReplyAuthority(c, Authority(p, lease, status, t), lease)
    BY <1>2, <1>8 DEF DecideMutation
  <2>2. t = now
    BY <1>5, <2>1 DEF Readings, SteadyLeases
  <2>3. CASE ReplyAuthority(c, Authority(p, lease, status, t), lease)
    BY <1>1, <1>4, <2>3, AuthorityTells
  <2>4. CASE call' = [call EXCEPT ![c].pc = "write", ![c].run = r,
                                  ![c].held = {r}, ![c].lease = row(t)]
    <3> DEFINE new == row(t)
               y == [x EXCEPT !.pc = "write", !.run = r, !.held = {r}, !.lease = new]
    <3>1. new.expires = now + x.req.duration
      BY <1>4, <1>5, <1>8, <2>2, RenewedLeaseFacts
    <3>2. lease.expires <= now + x.req.duration /\ lease.expires \in Nat
      BY <1>4, <1>5, <1>8 DEF OverlapInv, LeasesLast, Lease
    <3>3. new.expires >= lease.expires
      BY <1>4, <1>5, <3>1, <3>2, LeasesAssumption
    <3> HIDE DEF new
    <3>4. call' = [call EXCEPT ![c] = y]
      BY <2>4, AllFacts DEF new
    <3>5. y.run = r /\ y.lease = new /\ y.req = x.req /\ y.reply = x.reply /\ y.pc = "write"
      BY AllFacts DEF Calls
    <3> HIDE DEF y
    <3>6. call'[c] = y /\ \A d \in Callers \ {c} : call'[d] = call[d]
      BY <3>4, AllFacts
    <3>7. Told(x.reply, leases, now)
      BY DEF OverlapInv, Lasting
    <3>8. Lasting(y, leases, now)
      BY <1>2, <3>3, <3>5, <3>7 DEF Lasting
    <3>9. \A d \in Callers : Lasting(call'[d], leases, now)
      BY <3>6, <3>8 DEF OverlapInv
    <3>10. runs' = runs /\ leases' = leases /\ receipts' = receipts /\ done' = done
      BY <1>1 DEF store
    <3> QED BY <1>1, <3>9, <3>10 DEF OverlapInv, LeasesLast, GrantsLast, Granted, Lasting
  <2>5. CASE Refuse(c, "storage_unavailable")
    BY <1>6, <2>5
  <2> QED BY <2>1, <2>3, <2>4, <2>5
<1> QED BY <1>7, <1>8

\* The worker a commit is acknowledged to is told the lease that it left.
LEMMA CompleteLasts ==
  ASSUME SteadyLeases, LeaseInv, OverlapInv, NEW c \in Callers, Complete(c)
  PROVE  OverlapInv'
<1> DEFINE x == call[c]
<1>1. /\ x \in Calls /\ x.pc = "sent" /\ Rely(x) /\ Apply(x) /\ Lasting(x, leases, now)
      /\ now' = now /\ orphans' = orphans
  BY AllFacts DEF Complete, Rely, OverlapInv
<1>2. LeasesLast' /\ GrantsLast' /\ LeaseInv'
  BY <1>1, ApplyLasts, CompleteStep
<1>3. \A d \in Callers \ {c} : Lasting(call[d], leases', now')
  <2> SUFFICES ASSUME NEW d \in Callers \ {c}
               PROVE  Lasting(call[d], leases', now')
    OBVIOUS
  <2>1. call[d] \in Calls /\ Rely(call[d]) /\ Apart(x, call[d]) /\ Lasting(call[d], leases, now)
    BY AllFacts DEF Rely, OverlapInv
  <2> QED BY <1>1, <2>1, LastingSurvives
<1>4. \A o \in orphans : Lasting(o, leases', now')
  <2> SUFFICES ASSUME NEW o \in orphans
               PROVE  Lasting(o, leases', now')
    OBVIOUS
  <2>1. o \in Calls /\ Rely(o) /\ Apart(x, o) /\ Lasting(o, leases, now)
    BY AllFacts DEF OverlapInv
  <2> QED BY <1>1, <2>1, LastingSurvives
<1>5. ASSUME Grants(x) \/ Mutates(x)
      PROVE  Promised(GrantOfLease(x.run, x.lease), leases', now')
  <2>1. leases' = [leases EXCEPT ![x.run] = x.lease] /\ x.run \in Runs /\ x.lease \in Lease
    BY <1>1, <1>5, ApplyEffects, SentFacts
  <2>2. leases'[x.run] = x.lease /\ x.lease # None
    BY <2>1, RowsAssumption, AllFacts DEF StoreTyped
  <2>3. x.lease.attempt \in Nat /\ x.lease.version \in Nat /\ x.lease.expires \in Nat
    BY <2>1 DEF Lease
  <2> QED BY <2>1, <2>2, <2>3 DEF Promised, GrantOfLease, GrantOf, GrantRecord
<1>6. \/ \E code : Refuse(c, code)
      \/ /\ Grants(x) \/ Mutates(x)
         /\ \E code : \E may_start \in BOOLEAN :
              Reply(c, code, may_start, GrantOfLease(x.run, x.lease))
  <2>1. CASE Declines(x)
    <3>1. Refuse(c, "no_work")
      BY <2>1 DEF Complete, Declines, IsCommit
    <3> QED BY <3>1
  <2>2. CASE Grants(x)
    <3>1. Reply(c, "claimed", TRUE, GrantOfLease(x.run, x.lease))
      BY <2>2 DEF Complete, Grants, IsCommit
    <3> QED BY <2>2, <3>1
  <2>3. CASE Mutates(x)
    <3>1. \/ Reply(c, "authoritative", TRUE, GrantOfLease(x.run, x.lease))
          \/ Reply(c, "released", FALSE, GrantOfLease(x.run, x.lease))
      BY <2>3 DEF Complete, Mutates, IsCommit
    <3> QED BY <2>3, <3>1
  <2>4. CASE IsCommit(x.req)
    <3>1. Refuse(c, "committed")
      BY <2>4 DEF Complete, IsCommit
    <3> QED BY <3>1
  <2> QED BY <1>1, <2>1, <2>2, <2>3, <2>4, SentFacts
<1>7. /\ \A d \in Callers \ {c} : call'[d] = call[d]
      /\ call'[c].pc = "idle" /\ Told(call'[c].reply, leases', now')
  <2>1. ASSUME NEW code, Refuse(c, code)
        PROVE  /\ \A d \in Callers \ {c} : call'[d] = call[d]
               /\ call'[c].pc = "idle" /\ Told(call'[c].reply, leases', now')
    <3>1. call' = [call EXCEPT ![c] = [AtRest EXCEPT !.reply =
                     IF x.req.op \in Remembered THEN Answer(x.req, code, FALSE, None) ELSE None]]
      BY <2>1 DEF Refuse, Reply
    <3> DEFINE answer == Answer(x.req, code, FALSE, None)
               reply == IF x.req.op \in Remembered THEN answer ELSE None
               y == [AtRest EXCEPT !.reply = reply]
    <3>2. y.pc = "idle" /\ y.reply = reply /\ answer.may_start = FALSE
      BY DEF AtRest, Answer
    <3> HIDE DEF y, answer
    <3>3. call' = [call EXCEPT ![c] = y]
      BY <3>1 DEF y, answer
    <3> QED BY <3>2, <3>3, AllFacts DEF Told
  <2>2. ASSUME NEW code, NEW may_start \in BOOLEAN, Grants(x) \/ Mutates(x),
               Reply(c, code, may_start, GrantOfLease(x.run, x.lease))
        PROVE  /\ \A d \in Callers \ {c} : call'[d] = call[d]
               /\ call'[c].pc = "idle" /\ Told(call'[c].reply, leases', now')
    <3> DEFINE grant == GrantOfLease(x.run, x.lease)
               answer == Answer(x.req, code, may_start, grant)
               reply == IF x.req.op \in Remembered THEN answer ELSE None
               y == [AtRest EXCEPT !.reply = reply]
    <3>1. call' = [call EXCEPT ![c] = y]
      BY <2>2 DEF Reply
    <3>2. y.pc = "idle" /\ y.reply = reply /\ answer.grant = grant
      BY DEF AtRest, Answer
    <3>3. Promised(grant, leases', now')
      BY <1>5, <2>2
    <3> HIDE DEF y, answer, grant
    <3> QED BY <3>1, <3>2, <3>3, AllFacts DEF Told
  <2> QED BY <1>6, <2>1, <2>2
<1>8. Lasting(call'[c], leases', now')
  BY <1>7 DEF Lasting, WritePhases
<1> QED BY <1>1, <1>2, <1>3, <1>4, <1>7, <1>8 DEF OverlapInv

\* A transaction left behind tells nobody anything.
LEMMA ResolveLasts ==
  ASSUME SteadyLeases, LeaseInv, OverlapInv, NEW o \in orphans, Resolve(o)
  PROVE  OverlapInv'
<1>1. orphans' = orphans \ {o} /\ now' = now /\ call' = call
  BY DEF Resolve
<1>2. CASE UNCHANGED store
  BY <1>1, <1>2 DEF store, OverlapInv, LeasesLast, GrantsLast, Granted
<1>3. CASE Apply(o)
  <2>1. o \in Calls /\ o.pc = "sent" /\ Rely(o) /\ Lasting(o, leases, now)
    BY AllFacts DEF OverlapInv
  <2>2. LeasesLast' /\ GrantsLast'
    BY <1>1, <1>3, <2>1, ApplyLasts
  <2>3. \A c \in Callers : Lasting(call[c], leases', now')
    <3> SUFFICES ASSUME NEW c \in Callers
                 PROVE  Lasting(call[c], leases', now')
      OBVIOUS
    <3>1. call[c] \in Calls /\ Rely(call[c]) /\ Apart(o, call[c]) /\ Lasting(call[c], leases, now)
      BY AllFacts DEF Rely, OverlapInv
    <3> QED BY <1>1, <1>3, <2>1, <3>1, LastingSurvives
  <2>4. \A p \in orphans' : Lasting(p, leases', now')
    <3> SUFFICES ASSUME NEW p \in orphans, p # o
                 PROVE  Lasting(p, leases', now')
      BY <1>1
    <3>1. p \in Calls /\ Rely(p) /\ Apart(o, p) /\ Lasting(p, leases, now)
      BY AllFacts DEF OverlapInv
    <3> QED BY <1>1, <1>3, <2>1, <3>1, LastingSurvives
  <2> QED BY <1>1, <2>2, <2>3, <2>4 DEF OverlapInv
<1> QED BY <1>2, <1>3 DEF Resolve

\* A request has been told nothing.
LEMMA RequestLasts ==
  ASSUME SteadyLeases, LeaseInv, OverlapInv, NEW c \in Callers, Request(c)
  PROVE  OverlapInv'
<1>1. PICK req \in Sendable :
        /\ req.op \in Ops
        /\ call' = [call EXCEPT ![c] = [AtRest EXCEPT !.pc = FirstStep(req), !.req = req]]
  BY DEF Request
<1> DEFINE y == [AtRest EXCEPT !.pc = FirstStep(req), !.req = req]
<1>2. now' = now /\ runs' = runs /\ leases' = leases /\ receipts' = receipts /\ orphans' = orphans
  BY DEF Request, store
<1>3. y.pc = FirstStep(req) /\ y.req = req /\ y.reply = None
  BY DEF AtRest
<1>4. FirstStep(req) \notin WritePhases
  BY SendableFacts, RequestFacts, <1>1 DEF FirstStep, WritePhases, IsCommit
<1> HIDE DEF y
<1>5. call'[c] = y /\ \A d \in Callers \ {c} : call'[d] = call[d]
  BY <1>1, AllFacts DEF y
<1>6. Lasting(y, leases, now)
  BY <1>1, <1>3, <1>4 DEF Lasting, Told, SteadyLeases
<1>7. \A d \in Callers : Lasting(call'[d], leases, now)
  BY <1>5, <1>6 DEF OverlapInv
<1> QED BY <1>2, <1>7 DEF OverlapInv, LeasesLast, GrantsLast, Granted

\* Time only ends what was promised.
LEMMA TickLasts ==
  ASSUME LeaseInv, OverlapInv, Tick
  PROVE  OverlapInv'
<1>1. /\ now' = now + 1 /\ call' = call /\ orphans' = orphans
      /\ runs' = runs /\ leases' = leases /\ receipts' = receipts
  BY DEF Tick, store
<1>2. now \in Nat /\ StoreTyped
  BY AllFacts
<1>3. \A x : Lasting(x, leases, now) => Lasting(x, leases, now + 1)
  <2> SUFFICES ASSUME NEW x, Lasting(x, leases, now), x.reply # None, x.reply.may_start
               PROVE  Promised(x.reply.grant, leases, now + 1)
    BY DEF Lasting, Told
  <2>1. Promised(x.reply.grant, leases, now)
    BY DEF Lasting, Told
  <2>2. x.reply.grant.expires \in Nat
    BY <2>1 DEF Promised, GrantRecord
  <2> QED BY <1>2, <2>1, <2>2 DEF Promised
<1>4. LeasesLast'
  <2> SUFFICES ASSUME NEW r \in Runs, leases[r] # None
               PROVE  leases[r].released = None
                        /\ \A d \in Durations : leases[r].expires <= now + 1 + d
    BY <1>1 DEF LeasesLast
  <2>1. leases[r].expires \in Nat
    BY <1>2 DEF StoreTyped, Lease
  <2> QED BY <1>2, <2>1, LeasesAssumption DEF OverlapInv, LeasesLast
<1> QED BY <1>1, <1>3, <1>4 DEF OverlapInv, GrantsLast, Granted

\* At the start nobody was told anything.
LEMMA OverlapInit == Init => OverlapInv
<1> SUFFICES ASSUME Init
             PROVE  OverlapInv
  OBVIOUS
<1>1. \A c \in Callers : call[c].pc = "idle" /\ call[c].reply = None
  BY DEF Init, AtRest
<1> QED BY <1>1 DEF Init, OverlapInv, LeasesLast, GrantsLast, Granted, Lasting, Told, WritePhases

\* Every step keeps what workers were told in order.
LEMMA OverlapNext ==
  ASSUME SteadyLeases, LeaseInv, OverlapInv, [Next]_vars
  PROVE  OverlapInv'
<1>1. ASSUME NEW c \in Callers, Progress(c)
      PROVE  OverlapInv'
  <2>1. CASE \/ ReadClock(c) \/ LoadReceipt(c) \/ Select(c) \/ SkipLocked(c)
             \/ ProbeGetsRow(c) \/ Recheck(c) \/ StoreLease(c) \/ InsertReceipt(c)
             \/ ArbitrateCommit(c) \/ LockForCommit(c) \/ SendCommit(c)
    <3>1. Quiet(c)
      BY <2>1, ReadClockIsQuiet, SelectIsQuiet, SkipLockedIsQuiet, ProbeIsQuiet,
         RecheckIsQuiet, StoringIsQuiet, CommittingIsQuiet, SendCommitIsQuiet
    <3>2. now' = now /\ UNCHANGED store /\ orphans' = orphans
      BY <2>1 DEF ReadClock, LoadReceipt, Select, SkipLocked, ProbeGetsRow, Recheck,
         StoreLease, InsertReceipt, ArbitrateCommit, LockForCommit, SendCommit
    <3> QED BY <3>1, <3>2, QuietStep
  <2>2. CASE ReplayClaim(c) \/ Evaluate(c) \/ DecideMutation(c) \/ Complete(c)
    BY <2>2, ReplayLasts, EvaluateLasts, DecideMutationLasts, CompleteLasts
  <2> QED BY <1>1, <2>1, <2>2 DEF Progress
<1>2. ASSUME NEW c \in Callers, Fail(c) \/ LoseCommit(c) \/ DetectDeadlock(c)
      PROVE  OverlapInv'
  <2>1. /\ now' = now /\ UNCHANGED store /\ orphans' \subseteq orphans \cup {call[c]}
        /\ \E code : Refuse(c, code)
    BY <1>2 DEF Fail, LoseCommit, DetectDeadlock, RollBack
  <2> QED BY <2>1, RefuseIsQuiet, QuietStep
<1>3. CASE UNCHANGED vars
  BY <1>3 DEF vars, OverlapInv, LeasesLast, GrantsLast, Granted
<1> QED BY <1>1, <1>2, <1>3, RequestLasts, ResolveLasts, TickLasts DEF Next

\* Who still believes in a grant was told the current attempt.
LEMMA TheCurrentAttempt ==
  ASSUME LeaseInv, OverlapInv, NEW c \in Callers, NEW r \in Runs, Believes(c, r)
  PROVE  call[c].reply.grant.attempt = leases[r].attempt
<1> DEFINE grant == call[c].reply.grant
<1>1. Promised(grant, leases, now) /\ grant.run = r /\ grant.expires > now
  BY DEF Believes, OverlapInv, Lasting, Told
<1>2. now \in Nat /\ leases[r] \in Lease
  BY <1>1, AllFacts DEF StoreTyped, Promised
<1>3. leases[r].attempt \in Nat /\ grant.attempt \in Nat /\ grant.expires \in Nat
  BY <1>1, <1>2 DEF Promised, GrantRecord, Lease
<1> HIDE DEF grant
<1>4. grant.attempt = leases[r].attempt
  BY <1>1, <1>2, <1>3 DEF Promised
<1> QED BY <1>4 DEF grant

\* WorkersDoNotOverlap: as long as the clock does not step back, all leases last equally
\* long and nobody releases one, two workers who keep to the expiry they were told never
\* work on one run under different grants (may_start_new_work).
THEOREM WorkersStayApart ==
  ASSUME SteadyLeases
  PROVE  Spec => []WorkersDoNotOverlap
<1>1. Init => OverlapInv
  BY OverlapInit
<1>2. LeaseInv /\ OverlapInv /\ [Next]_vars => OverlapInv'
  BY OverlapNext
<1>3. LeaseInv /\ OverlapInv => WorkersDoNotOverlap
  BY TheCurrentAttempt DEF WorkersDoNotOverlap
<1> QED BY <1>1, <1>2, <1>3, LeasesStayInOrder, PTL DEF Spec
=============================================================================
