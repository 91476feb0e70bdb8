--------------------------- MODULE TrustLineAudit ---------------------------
(***************************************************************************)
(* The two nodes of one trust line change what they trust each other with. *)
(* A node sets its outgoing limit, the contractor takes it over, both sign *)
(* an audit of the new limits; when an audit is refused they compare the   *)
(* audits that they have.  Requests stay in a queue and are sent again     *)
(* until an answer removes them; a transaction that waits too long ends    *)
(* and leaves its serialized form for the answer to find.                  *)
(***************************************************************************)
EXTENDS Naturals, FiniteSets

CONSTANTS
    Nodes,           \* the two neighbours
    Changes,         \* the commands to set an outgoing limit
    Owner,           \* Owner[t]: the node whose user gives command t
    Amount,          \* Amount[t]: the limit that it sets
    FirstLimit,      \* both limits in the audit of the opening
    MaxResolvers,    \* bound on the conflict resolvers that a node launches
    MaxCrashes,      \* MaxCrashes[n]: bound on the crashes of n
    Impatient,       \* nodes whose transactions may time out
    Delaying         \* nodes whose messages may arrive late, in any order

ASSUME AuditAssumption ==
    /\ \E a, b \in Nodes : a # b /\ Nodes = {a, b}
    /\ Owner \in [Changes -> Nodes]
    /\ Amount \in [Changes -> Nat \ {0}]
    /\ FirstLimit \in Nat \ {0}
    /\ MaxResolvers \in Nat
    /\ MaxCrashes \in [Nodes -> Nat]
    /\ Impatient \subseteq Nodes /\ Delaying \subseteq Nodes

Resolvers == Nodes \X (1..MaxResolvers)

ASSUME IdsDiffer == Changes \cap Resolvers = {}

VARIABLES
    up,         \* up[n]: is the process of n running?
    state,      \* state[n]: of the line at n, in memory and in the database
    limits,     \* limits[n]: the outgoing and the incoming limit, in memory
    saved,      \* saved[n]: the last audit of n (database)
    form,       \* form[n][t]: audit number in the serialized form of t, or 0
    task,       \* task[n][t]: what the running transaction t of n waits for
    outbox,     \* outbox[n]: requests that are not answered yet (database)
    cache,      \* cache[n]: the last answer, to be given again
    link,       \* link[n]: messages on their way from n
    begun,      \* commands that were given, conflict resolvers launched
    crashes     \* crashes[n]: how often n has crashed

vars == <<up, state, limits, saved, form, task, outbox, cache, link, begun, crashes>>

Peer(n) == CHOOSE m \in Nodes : m # n

Transactions == Changes \cup Resolvers

-----------------------------------------------------------------------------
(* Terms and messages. *)

\* The limits as an audit with a number would sign them.
Terms(n, number) ==
    [number |-> number, outgoing |-> limits[n].outgoing, incoming |-> limits[n].incoming]

Mirror(t) == [number |-> t.number, outgoing |-> t.incoming, incoming |-> t.outgoing]

NoTerms == [number |-> 0, outgoing |-> 0, incoming |-> 0]

\* Mutant of LimitsOf: the number stays with the limits.
MutantLimitsOf(t) == t

LimitsOf(t) == [outgoing |-> t.outgoing, incoming |-> t.incoming]

Message(type, t, answer, terms) ==
    [type |-> type, tx |-> t, answer |-> answer, terms |-> terms]

Request(type, t, terms) == Message(type, t, "none", terms)

NoAnswer == Message("none", "none", "none", NoTerms)

\* A link that delays keeps every message, another one only the last.
OnLink(n, messages) ==
    IF messages = {} THEN link[n]
    ELSE IF n \in Delaying THEN link[n] \cup messages ELSE messages

\* n sends messages of its own accord.
Sends(n, messages) == link' = [link EXCEPT ![n] = OnLink(n, messages)]

\* n takes m from the link and answers.
Exchanges(n, m, answers) ==
    link' = [link EXCEPT ![Peer(n)] = @ \ {m}, ![n] = OnLink(n, answers)]

\* A request replaces the queued ones of its type, and of its transaction.
Posted(n, m) == {x \in outbox[n] : x.type # m.type /\ x.tx # m.tx} \cup {m}

\* processConfirmationMessage.
Unposted(n, t) == {x \in outbox[n] : x.tx # t}

Arrived(n, type) == {m \in link[Peer(n)] : up[n] /\ m.type = type}

Ends(n, t) == task' = [task EXCEPT ![n][t] = "none"]

NothingCached == [filter |-> "none", answer |-> NoAnswer]

\* The process of n ends.
Falls(n) ==
    /\ up' = [up EXCEPT ![n] = FALSE]
    /\ task' = [task EXCEPT ![n] = [t \in Transactions |-> "none"]]
    /\ cache' = [cache EXCEPT ![n] = NothingCached]

\* mAuditNumber of a transaction that begins.
NextNumber(n) == saved[n].number + 1

\* Mutant of Signed: the number of the audit is not part of what is signed.
MutantSigned(own, theirs) == LimitsOf(theirs) = LimitsOf(Mirror(own))

\* checkSign: has the contractor signed the same terms?
Signed(own, theirs) == theirs = Mirror(own)

\* A number that is in the database already makes saveAudit throw.
CanSave(n, number) == number > saved[n].number

-----------------------------------------------------------------------------
(* SetOutgoingTrustLineTransaction, up to the audit. *)

SetOutgoing(n, t) ==
    /\ up[n] /\ Owner[t] = n /\ t \notin begun /\ state[n] = "Active"
    /\ begun' = begun \cup {t}
    /\ state' = [state EXCEPT ![n] = "Modify"]
    /\ limits' = [limits EXCEPT ![n].outgoing = Amount[t]]
    /\ form' = [form EXCEPT ![n][t] = NextNumber(n)]
    /\ task' = [task EXCEPT ![n][t] = "confirmation"]
    /\ LET m == Request("SetIncoming", t, NoTerms)
       IN  outbox' = [outbox EXCEPT ![n] = Posted(n, m)] /\ Sends(n, {m})
    /\ UNCHANGED <<up, saved, cache, crashes>>

\* A message finds the transaction that waits for it, or else, when none of
\* that name runs, the serialized form.
Attached(n, t, stage) == task[n][t] = stage
Relaunched(n, t) == task[n][t] = "none" /\ form[n][t] # 0

\* runResponseProcessingStage for OK.  A relaunched transaction takes the path
\* that the state of the line asks for, whatever the message is.
ChangeAccepted(n, m) ==
    /\ \/ Attached(n, m.tx, "confirmation") /\ m.type = "Confirmation" /\ UNCHANGED limits
       \/ /\ Relaunched(n, m.tx) /\ state[n] = "Modify"
          /\ limits' = [limits EXCEPT ![n].outgoing = Amount[m.tx]]
    /\ m.answer = "OK"
    /\ state' = [state EXCEPT ![n] = "AuditPending"]
    /\ outbox' = [outbox EXCEPT ![n] = Unposted(n, m.tx)]
    /\ task' = [task EXCEPT ![n][m.tx] = "auditing"]
    /\ Exchanges(n, m, {})
    /\ UNCHANGED <<up, saved, form, cache, begun, crashes>>

\* The refused limit stays, and so does the request in the queue.  A
\* relaunched transaction reads the previous state from the wrong place.
ChangeRefused(n, m) ==
    /\ \/ /\ Attached(n, m.tx, "confirmation") /\ m.type = "Confirmation"
          /\ state' = [state EXCEPT ![n] = "Active"]
       \/ /\ Relaunched(n, m.tx) /\ state[n] = "Modify"
          /\ state' = [state EXCEPT ![n] = "unknown"]
    /\ m.answer # "OK"
    /\ limits' = [limits EXCEPT ![n].outgoing = Amount[m.tx]]
    /\ form' = [form EXCEPT ![n][m.tx] = 0]
    /\ Ends(n, m.tx)
    /\ Exchanges(n, m, {})
    /\ UNCHANGED <<up, saved, outbox, cache, begun, crashes>>

-----------------------------------------------------------------------------
(* The audit, on the side that asks for it. *)

\* runAuditInitializationStage.
InitAudit(n, t) ==
    /\ up[n] /\ task[n][t] = "auditing" /\ state[n] = "AuditPending"
    /\ task' = [task EXCEPT ![n][t] = "auditResponse"]
    /\ LET m == Request("Audit", t, Terms(n, form[n][t]))
       IN  outbox' = [outbox EXCEPT ![n] = Posted(n, m)] /\ Sends(n, {m})
    /\ UNCHANGED <<up, state, limits, saved, form, cache, begun, crashes>>

AuditNotPending(n, t) ==
    /\ up[n] /\ task[n][t] = "auditing" /\ state[n] # "AuditPending"
    /\ Ends(n, t)
    /\ UNCHANGED <<up, state, limits, saved, form, outbox, cache, link, begun, crashes>>

\* runAuditResponseProcessingStage is entered; a relaunched transaction has made
\* its change again.
AuditAnswerTaken(n, m) ==
    /\ \/ Attached(n, m.tx, "auditResponse") /\ m.type = "AuditConfirmation" /\ UNCHANGED limits
       \/ /\ Relaunched(n, m.tx) /\ state[n] = "AuditPending"
          /\ limits' = [limits EXCEPT ![n].outgoing = Amount[m.tx]]
    /\ outbox' = [outbox EXCEPT ![n] = Unposted(n, m.tx)]
    /\ Exchanges(n, m, {})
    /\ UNCHANGED <<up, cache, crashes>>

\* What checkSign compares the answer with: the limits once the change is made again.
OwnTerms(n, t) ==
    [number |-> form[n][t], outgoing |-> limits'[n].outgoing, incoming |-> limits'[n].incoming]

AuditAccepted(n, m) ==
    /\ AuditAnswerTaken(n, m) /\ m.answer = "OK" /\ Signed(OwnTerms(n, m.tx), m.terms)
    /\ Ends(n, m.tx)
    /\ IF CanSave(n, form[n][m.tx])
       THEN /\ saved' = [saved EXCEPT ![n] = OwnTerms(n, m.tx)]
            /\ state' = [state EXCEPT ![n] = "Active"]
            /\ form' = [form EXCEPT ![n][m.tx] = 0]
       ELSE UNCHANGED <<saved, state, form>>
    /\ UNCHANGED begun

\* The answer is signed over other terms; the line stays where it is.
AuditWronglySigned(n, m) ==
    /\ AuditAnswerTaken(n, m) /\ m.answer = "OK" /\ ~Signed(OwnTerms(n, m.tx), m.terms)
    /\ form' = [form EXCEPT ![n][m.tx] = 0]
    /\ Ends(n, m.tx)
    /\ UNCHANGED <<saved, state, begun, crashes>>

\* The relaunched transaction reads a signature where a Confirmation has none:
\* it may find rubbish (AuditWronglySigned), or the process ends.
ConfirmationMisread(n, m) ==
    /\ Relaunched(n, m.tx) /\ state[n] = "AuditPending"
    /\ m.type = "Confirmation" /\ m.answer = "OK"
    /\ outbox' = [outbox EXCEPT ![n] = Unposted(n, m.tx)]
    /\ Falls(n)
    /\ Exchanges(n, m, {})
    /\ UNCHANGED <<state, limits, saved, form, begun, crashes>>

\* A conflict resolver is launched, under the next name that is free.
Launches(n, newTask) ==
    \E k \in 1..MaxResolvers :
        /\ <<n, k>> \notin begun /\ \A j \in 1..(k - 1) : <<n, j>> \in begun
        /\ begun' = begun \cup {<<n, k>>}
        /\ task' = [newTask EXCEPT ![n][<<n, k>>] = "resolving"]

AuditRefused(n, m) ==
    /\ AuditAnswerTaken(n, m) /\ m.answer # "OK"
    /\ form' = [form EXCEPT ![n][m.tx] = 0]
    /\ state' = [state EXCEPT ![n] = "ConflictResolving"]
    /\ Launches(n, [task EXCEPT ![n][m.tx] = "none"])
    /\ UNCHANGED saved

-----------------------------------------------------------------------------
(* The contractor: SetIncomingTrustLineTransaction, AuditTargetTransaction. *)

\* Mutant of Cached: no answer is kept.
MutantCached(n, m) == FALSE

\* A request that was the last to be answered is answered from the cache.
Cached(n, m) == cache[n].filter = m.type /\ cache[n].answer.tx = m.tx

AnswerFromCache(n, m) ==
    /\ Cached(n, m)
    /\ Exchanges(n, m, {cache[n].answer})
    /\ UNCHANGED <<up, state, limits, saved, form, task, outbox, cache, begun, crashes>>

\* The answer is sent and kept in place of the last one.
AnswersAndCaches(n, m, answer) ==
    /\ cache' = [cache EXCEPT ![n] = [filter |-> m.type, answer |-> answer]]
    /\ Exchanges(n, m, {answer})

SetIncoming(n, m) ==
    /\ ~Cached(n, m) /\ task[n][m.tx] = "none" /\ state[n] = "Active"
    /\ state' = [state EXCEPT ![n] = "AuditPending"]
    /\ limits' = [limits EXCEPT ![n].incoming = Amount[m.tx]]
    /\ form' = [form EXCEPT ![n][m.tx] = NextNumber(n)]
    /\ task' = [task EXCEPT ![n][m.tx] = "audit"]
    /\ AnswersAndCaches(n, m, Message("Confirmation", m.tx, "OK", NoTerms))
    /\ UNCHANGED <<up, saved, outbox, begun, crashes>>

\* The line is not Active; or a transaction of that name runs, and nobody answers.
RefuseIncoming(n, m) ==
    /\ ~Cached(n, m) /\ (task[n][m.tx] # "none" \/ state[n] # "Active")
    /\ Exchanges(n, m, IF task[n][m.tx] = "none"
                         THEN {Message("Confirmation", m.tx, "Error", NoTerms)} ELSE {})
    /\ UNCHANGED <<up, state, limits, saved, form, task, outbox, cache, begun, crashes>>

\* Mutant of TargetLimits: the transaction read back changes the other limit.
MutantTargetLimits(n, m) ==
    IF Relaunched(n, m.tx) THEN [limits[n] EXCEPT !.outgoing = Amount[m.tx]] ELSE limits[n]

\* runAuditTargetStage is entered: by the transaction that waits for the audit,
\* by its serialized form (which makes the change again), or by a new one.
TargetLimits(n, m) ==
    IF Relaunched(n, m.tx) THEN [limits[n] EXCEPT !.incoming = Amount[m.tx]] ELSE limits[n]

TargetNumber(n, m) == IF form[n][m.tx] # 0 THEN form[n][m.tx] ELSE NextNumber(n)

TargetTerms(n, m) ==
    [number |-> TargetNumber(n, m), outgoing |-> TargetLimits(n, m).outgoing,
     incoming |-> TargetLimits(n, m).incoming]

AuditTaken(n, m) ==
    /\ ~Cached(n, m)
    /\ task[n][m.tx] \in {"audit", "none"}
    /\ Ends(n, m.tx)
    /\ UNCHANGED <<up, outbox, begun, crashes>>

SignAudit(n, m) ==
    /\ AuditTaken(n, m) /\ state[n] = "AuditPending"
    /\ Signed(TargetTerms(n, m), m.terms) /\ CanSave(n, TargetNumber(n, m))
    /\ limits' = [limits EXCEPT ![n] = TargetLimits(n, m)]
    /\ saved' = [saved EXCEPT ![n] = TargetTerms(n, m)]
    /\ state' = [state EXCEPT ![n] = "Active"]
    /\ form' = [form EXCEPT ![n][m.tx] = 0]
    /\ AnswersAndCaches(n, m, Message("AuditConfirmation", m.tx, "OK", TargetTerms(n, m)))

\* The state or the signature is wrong.
RefuseAudit(n, m) ==
    /\ AuditTaken(n, m)
    /\ IF state[n] = "AuditPending"
       THEN /\ ~Signed(TargetTerms(n, m), m.terms)
            /\ limits' = [limits EXCEPT ![n] = TargetLimits(n, m)]
       ELSE ~Relaunched(n, m.tx) /\ UNCHANGED limits
    /\ Exchanges(n, m, {Message("AuditConfirmation", m.tx, "Error", NoTerms)})
    /\ UNCHANGED <<state, saved, form, cache>>

\* saveAudit throws, or a relaunched transaction finds a state that it does not know.
LeaveAudit(n, m) ==
    /\ AuditTaken(n, m)
    /\ IF state[n] = "AuditPending"
       THEN /\ Signed(TargetTerms(n, m), m.terms) /\ ~CanSave(n, TargetNumber(n, m))
            /\ limits' = [limits EXCEPT ![n] = TargetLimits(n, m)]
       ELSE Relaunched(n, m.tx) /\ UNCHANGED limits
    /\ Exchanges(n, m, {})
    /\ UNCHANGED <<state, saved, form, cache>>

-----------------------------------------------------------------------------
(* Conflict resolving. *)

\* ConflictResolverInitiatorTransaction: the line is read back from the database.
Resolve(n, r) ==
    /\ up[n] /\ task[n][r] = "resolving"
    /\ IF state[n] = "ConflictResolving"
       THEN /\ limits' = [limits EXCEPT ![n] = LimitsOf(saved[n])]
            /\ task' = [task EXCEPT ![n][r] = "resolverResponse"]
            /\ LET m == Request("ConflictResolver", r, saved[n])
               IN  outbox' = [outbox EXCEPT ![n] = Posted(n, m)] /\ Sends(n, {m})
       ELSE Ends(n, r) /\ UNCHANGED <<limits, outbox, link>>
    /\ UNCHANGED <<up, state, saved, form, cache, begun, crashes>>

\* ConflictResolverContractorTransaction.
Answers(n, m, answer) ==
    /\ Exchanges(n, m, {Message("ResolverConfirmation", m.tx, answer, NoTerms)})
    /\ UNCHANGED <<up, form, outbox, cache, crashes>>

\* Mutant of Acceptable: any audit of the contractor is taken over.
MutantAcceptable(n, terms) == TRUE

\* The audit of the contractor is newer, or the same.
Acceptable(n, terms) == saved[n].number < terms.number \/ saved[n] = Mirror(terms)

AcceptTheirs(n, m) ==
    /\ Acceptable(n, m.terms)
    /\ saved' = [saved EXCEPT ![n] = Mirror(m.terms)]
    /\ limits' = [limits EXCEPT ![n] = LimitsOf(Mirror(m.terms))]
    /\ state' = [state EXCEPT ![n] = "Active"]
    /\ Answers(n, m, "OK")
    /\ UNCHANGED <<task, begun, crashes>>

\* The own audit is newer, or another one: a resolver of its own is launched, or,
\* when one was already, the line is given up.
RejectTheirs(n, m) ==
    /\ ~Acceptable(n, m.terms)
    /\ limits' = [limits EXCEPT ![n] = LimitsOf(saved[n])]
    /\ IF state[n] = "ConflictResolving"
       THEN /\ state' = [state EXCEPT ![n] = "Conflict"]
            /\ UNCHANGED <<task, begun, crashes>>
       ELSE /\ state' = [state EXCEPT ![n] = "ConflictResolving"]
            /\ Launches(n, task)
    /\ Answers(n, m, "Reject")
    /\ UNCHANGED saved

\* The initiator takes the answer.
Resolved(n, m) ==
    /\ task[n][m.tx] = "resolverResponse"
    /\ outbox' = [outbox EXCEPT ![n] = Unposted(n, m.tx)]
    /\ Ends(n, m.tx)
    /\ state' = IF m.answer = "OK" THEN [state EXCEPT ![n] = "Active"] ELSE state
    /\ Exchanges(n, m, {})
    /\ UNCHANGED <<up, limits, saved, form, cache, begun, crashes>>

-----------------------------------------------------------------------------
(* Timeouts, the network, crashes. *)

\* Nobody takes the answer: no transaction waits for it and no form is left.
Wanted(n, m) ==
    \/ m.type = "Confirmation" /\ Attached(n, m.tx, "confirmation")
    \/ m.type = "AuditConfirmation" /\ Attached(n, m.tx, "auditResponse")
    \/ m.type = "ResolverConfirmation" /\ Attached(n, m.tx, "resolverResponse")
    \/ m.tx \in Changes /\ Relaunched(n, m.tx) /\ state[n] \in {"Modify", "AuditPending"}

DropAnswer(n, m) ==
    /\ ~Wanted(n, m)
    /\ Exchanges(n, m, {})
    /\ UNCHANGED <<up, state, limits, saved, form, task, outbox, cache, begun, crashes>>

\* Nothing came in time: the transaction ends, its form and its request stay.
Timeout(n, t) ==
    /\ up[n] /\ n \in Impatient
    /\ task[n][t] \in {"confirmation", "auditResponse", "audit", "resolverResponse"}
    /\ Ends(n, t)
    /\ UNCHANGED <<up, state, limits, saved, form, outbox, cache, link, begun, crashes>>

Resend(n) ==
    /\ up[n] /\ outbox[n] # {}
    /\ \E m \in outbox[n] : m \notin link[n] /\ Sends(n, {m})
    /\ UNCHANGED <<up, state, limits, saved, form, task, outbox, cache, begun, crashes>>

Lose(n) ==
    /\ \E m \in link[n] : link' = [link EXCEPT ![n] = @ \ {m}]
    /\ UNCHANGED <<up, state, limits, saved, form, task, outbox, cache, begun, crashes>>

Crash(n) ==
    /\ up[n] /\ crashes[n] < MaxCrashes[n]
    /\ crashes' = [crashes EXCEPT ![n] = @ + 1]
    /\ Falls(n)
    /\ UNCHANGED <<state, limits, saved, form, outbox, link, begun>>

\* The limits that serialized changes make again on one side of the line.
FormAmounts(n, side, states) ==
    IF state[n] \notin states THEN {}
    ELSE {Amount[t] : t \in {x \in Changes :
              form[n][x] # 0 /\ (side = "outgoing") = (Owner[x] = n)}}

\* The line is read back and every serialized transaction runs its recovery.
Restart(n) ==
    /\ ~up[n]
    /\ up' = [up EXCEPT ![n] = TRUE]
    /\ \E out \in FormAmounts(n, "outgoing", {"Modify", "AuditPending"}) \cup {saved[n].outgoing},
          in \in FormAmounts(n, "incoming", {"AuditPending"}) \cup {saved[n].incoming} :
            /\ FormAmounts(n, "outgoing", {"Modify", "AuditPending"}) # {} =>
                   out \in FormAmounts(n, "outgoing", {"Modify", "AuditPending"})
            /\ FormAmounts(n, "incoming", {"AuditPending"}) # {} =>
                   in \in FormAmounts(n, "incoming", {"AuditPending"})
            /\ limits' = [limits EXCEPT ![n] = [outgoing |-> out, incoming |-> in]]
    /\ UNCHANGED <<state, saved, form, task, outbox, cache, link, begun, crashes>>

-----------------------------------------------------------------------------
(* Specification. *)

FirstTerms == [number |-> 1, outgoing |-> FirstLimit, incoming |-> FirstLimit]

\* A line that was opened and audited.
Init ==
    /\ up = [n \in Nodes |-> TRUE]
    /\ state = [n \in Nodes |-> "Active"]
    /\ limits = [n \in Nodes |-> LimitsOf(FirstTerms)]
    /\ saved = [n \in Nodes |-> FirstTerms]
    /\ form = [n \in Nodes |-> [t \in Changes |-> 0]]
    /\ task = [n \in Nodes |-> [t \in Transactions |-> "none"]]
    /\ outbox = [n \in Nodes |-> {}]
    /\ cache = [n \in Nodes |-> NothingCached]
    /\ link = [n \in Nodes |-> {}]
    /\ begun = {}
    /\ crashes = [n \in Nodes |-> 0]

Answer(n) ==
    \/ \E m \in Arrived(n, "SetIncoming") :
          AnswerFromCache(n, m) \/ SetIncoming(n, m) \/ RefuseIncoming(n, m)
    \/ \E m \in Arrived(n, "Audit") :
          AnswerFromCache(n, m) \/ SignAudit(n, m) \/ RefuseAudit(n, m) \/ LeaveAudit(n, m)
    \/ \E m \in Arrived(n, "ConflictResolver") : AcceptTheirs(n, m) \/ RejectTheirs(n, m)

Proceed(n) ==
    \/ \E m \in Arrived(n, "Confirmation") \cup Arrived(n, "AuditConfirmation") :
          \/ ChangeAccepted(n, m) \/ ChangeRefused(n, m)
          \/ AuditAccepted(n, m) \/ AuditWronglySigned(n, m) \/ AuditRefused(n, m)
          \/ ConfirmationMisread(n, m)
          \/ DropAnswer(n, m)
    \/ \E m \in Arrived(n, "ResolverConfirmation") : Resolved(n, m) \/ DropAnswer(n, m)

Awake(n) ==
    \/ \E t \in Changes : InitAudit(n, t) \/ AuditNotPending(n, t)
    \/ \E r \in Resolvers : Resolve(n, r)

Next ==
    \E n \in Nodes :
        \/ \E t \in Changes : SetOutgoing(n, t)
        \/ Answer(n) \/ Proceed(n) \/ Awake(n)
        \/ \E t \in Transactions : Timeout(n, t)
        \/ Resend(n) \/ Lose(n) \/ Crash(n) \/ Restart(n)

Spec == Init /\ [][Next]_vars

FairSpec ==
    /\ Spec
    /\ \A n \in Nodes :
        /\ WF_vars(Resend(n)) /\ WF_vars(Awake(n)) /\ WF_vars(Restart(n))
        /\ SF_vars(Answer(n)) /\ SF_vars(Proceed(n))

-----------------------------------------------------------------------------
(* Properties. *)

Stages == {"none", "confirmation", "auditing", "auditResponse", "audit", "resolving",
           "resolverResponse"}

States == {"Active", "Modify", "AuditPending", "ConflictResolving", "Conflict", "unknown"}

Requests == {"SetIncoming", "Audit", "ConflictResolver"}

Messages ==
    [type : Requests \cup {"Confirmation", "AuditConfirmation", "ResolverConfirmation"},
     tx : Transactions, answer : {"none", "OK", "Error", "Reject"},
     terms : [number : Nat, outgoing : Nat, incoming : Nat]]

\* Every variable keeps its type: the states of a line, the stages of the
\* transactions, the records of the database, the messages and the cached answer.
TypeOK ==
    /\ up \in [Nodes -> BOOLEAN]
    /\ state \in [Nodes -> States]
    /\ limits \in [Nodes -> [outgoing : Nat, incoming : Nat]]
    /\ saved \in [Nodes -> [number : Nat, outgoing : Nat, incoming : Nat]]
    /\ form \in [Nodes -> [Changes -> Nat]]
    /\ task \in [Nodes -> [Transactions -> Stages]]
    /\ outbox \in [Nodes -> SUBSET {m \in Messages : m.type \in Requests}]
    /\ cache \in [Nodes -> {NothingCached} \cup [filter : Requests, answer : Messages]]
    /\ link \in [Nodes -> SUBSET Messages]
    /\ begun \subseteq Transactions
    /\ crashes \in [Nodes -> Nat]

\* Two audits of one number are signed over the same limits, seen from the two
\* sides: whatever is lost, late, repeated, timed out or forgotten in a crash, and
\* whoever resolves a conflict, the nodes never hold different audits of a number
\* (saveAudit, acceptAudit).
AuditsMatch ==
    \A a, b \in Nodes :
        a # b /\ saved[a].number = saved[b].number => saved[a] = Mirror(saved[b])

\* A line that a node may use (payments need Active) has the limits of its last
\* audit: when an answer is lost, late or repeated, no node returns to Active with
\* a limit that the contractor has not signed.
UsableIsAudited ==
    \A n \in Nodes : state[n] = "Active" /\ up[n] => limits[n] = LimitsOf(saved[n])

Limits == {FirstLimit} \cup {Amount[t] : t \in Changes}

Chain == INSTANCE AuditChain WITH agreed <- saved, Amounts <- Limits

\* The two databases go from audit to audit together: one node takes the next
\* number, and only when they are level; the other one then takes the same terms
\* and nothing else.  No audit is skipped, replaced or taken back.
ImplementsChain == Chain!Spec

\* A change that was asked for is signed by both nodes in the end (the request is
\* sent again until it is answered, a late message finds the serialized
\* transaction, a repeated one the cached answer).
ChangeIsAudited ==
    \A t \in Changes :
        task[Owner[t]][t] = "confirmation"
          ~> /\ saved[Owner[t]].outgoing = Amount[t]
             /\ saved[Owner[t]] = Mirror(saved[Peer(Owner[t])])
=============================================================================
