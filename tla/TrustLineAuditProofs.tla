------------------------ MODULE TrustLineAuditProofs ------------------------
(***************************************************************************)
(* Theorems about TrustLineAudit, for any number of changes, resolvers and *)
(* crashes and whoever is impatient or delays: its types, and that the     *)
(* audits of the two nodes are a chain as long as no node signs an audit   *)
(* with a number under which it asks for one itself (NoCrossing).  That is *)
(* always so when one of the two gives all the commands.  If then the      *)
(* other one does not crash and gets the requests in order, a line in use  *)
(* has the limits of its last audit.                                       *)
(***************************************************************************)
EXTENDS TrustLineAudit, TLAPS

-----------------------------------------------------------------------------
(* What the variables range over. *)

AuditTerms == [number : Nat, outgoing : Limits, incoming : Limits]

Typed ==
    /\ up \in [Nodes -> BOOLEAN]
    /\ state \in [Nodes -> States]
    /\ limits \in [Nodes -> [outgoing : Limits, incoming : Limits]]
    /\ saved \in [Nodes -> AuditTerms]
    /\ form \in [Nodes -> [Changes -> Nat]]
    /\ task \in [Nodes -> [Transactions -> Stages]]
    /\ outbox \in [Nodes -> SUBSET {m \in Messages : m.type \in Requests}]
    /\ cache \in [Nodes -> {NothingCached} \cup [filter : Requests, answer : Messages]]
    /\ link \in [Nodes -> SUBSET Messages]
    /\ begun \subseteq Transactions
    /\ crashes \in [Nodes -> Nat]

\* The audit of n with that number, if it is still the last, has these terms.
Backed(n, terms) ==
    /\ terms \in AuditTerms
    /\ terms.number <= saved[n].number
    /\ terms.number = saved[n].number => terms = saved[n]

(***************************************************************************)
(* What n sends.  Who owns a change asks for it and the other one answers; *)
(* a node asks for one audit after its last at most, and what it has       *)
(* signed or shows to a resolver is an audit of its own.                   *)
(***************************************************************************)
Fits(n, m) ==
    /\ m \in Messages
    /\ m.type \in {"SetIncoming", "Audit"} => m.tx \in Changes /\ Owner[m.tx] = n
    /\ m.type \in {"Confirmation", "AuditConfirmation"} => m.tx \in Changes /\ Owner[m.tx] # n
    /\ m.type \in {"ConflictResolver", "ResolverConfirmation"} => m.tx \in Resolvers
    /\ m.type = "Confirmation" => m.terms = NoTerms
    /\ m.type = "Audit" => m.terms \in AuditTerms /\ m.terms.number <= saved[n].number + 1
    /\ m.type = "ConflictResolver" => Backed(n, m.terms)
    /\ m.type = "AuditConfirmation" /\ m.answer = "OK" => Backed(n, m.terms)

HasCached(n) == cache[n] # NothingCached

OwnStages == {"confirmation", "auditing", "auditResponse"}

TasksFit == \A n \in Nodes : \A t \in Transactions :
                task[n][t] \in OwnStages => t \in Changes /\ Owner[t] = n

FormsFit == \A n \in Nodes : \A t \in Changes : form[n][t] <= saved[n].number + 1

SentFit == \A n \in Nodes : \A m \in outbox[n] \cup link[n] : Fits(n, m)

CacheFits == \A n \in Nodes :
    HasCached(n) => /\ Fits(n, cache[n].answer)
                    /\ cache[n].answer.type \in {"Confirmation", "AuditConfirmation"}

\* Holds whatever is lost, late, repeated or forgotten.
AuditInv == Typed /\ TasksFit /\ FormsFit /\ SentFit /\ CacheFits

-----------------------------------------------------------------------------
(* The two audits. *)

\* n asks for an audit with number k, or its serialized change will.
Asks(n, k) ==
    \/ \E t \in Changes : Owner[t] = n /\ form[n][t] = k
    \/ \E m \in outbox[n] \cup link[n] : m.type = "Audit" /\ m.terms.number = k

\* n is about to sign the audit that m asks for.
Signs(n, m) ==
    /\ m \in Arrived(n, "Audit")
    /\ state[n] = "AuditPending"
    /\ Signed(TargetTerms(n, m), m.terms)
    /\ CanSave(n, TargetNumber(n, m))

\* Nobody is about to sign an audit with a number under which it asks for one.
NoCrossing == \A n \in Nodes : \A m : Signs(n, m) => ~Asks(n, m.terms.number)

\* Neither is more than one audit ahead; on a level they agree; and who is
\* ahead no longer asks for the audit that it has.
Levels ==
    \A n \in Nodes :
        /\ saved[n].number <= saved[Peer(n)].number + 1
        /\ saved[n].number = saved[Peer(n)].number => saved[n] = Mirror(saved[Peer(n)])
        /\ saved[n].number = saved[Peer(n)].number + 1 => ~Asks(n, saved[n].number)

-----------------------------------------------------------------------------
(***************************************************************************)
(* What any step does: an audit is replaced by a later one that the peer   *)
(* has (Copies) or asks for (Signs); a form is dropped or numbered after   *)
(* the last audit; what is sent fits and is asked for by a form.           *)
(***************************************************************************)

Copies(n, terms) == Backed(Peer(n), Mirror(terms))

SavedStep ==
    \/ UNCHANGED saved
    \/ \E n \in Nodes, terms \in AuditTerms :
          /\ saved' = [saved EXCEPT ![n] = terms]
          /\ saved[n].number < terms.number
          /\ Copies(n, terms) \/ \E m : Signs(n, m) /\ terms = Mirror(m.terms)

FormStep == \A n \in Nodes : \A t \in Changes :
                form'[n][t] \in {form[n][t], 0, saved'[n].number + 1}

New(n, m) ==
    /\ Fits(n, m)'
    /\ m.type = "Audit" => \E t \in Changes : Owner[t] = n /\ form[n][t] = m.terms.number

SentStep == \A n \in Nodes : \A m \in outbox'[n] \cup link'[n] :
    \/ m \in outbox[n] \cup link[n]
    \/ HasCached(n) /\ m = cache[n].answer
    \/ New(n, m)

CacheStep == \A n \in Nodes :
    \/ cache'[n] \in {cache[n], NothingCached}
    \/ \E m : m = cache'[n].answer /\ Fits(n, m)' /\ m.type \in {"Confirmation", "AuditConfirmation"}

Step == Typed' /\ TasksFit' /\ SavedStep /\ FormStep /\ SentStep /\ CacheStep

-----------------------------------------------------------------------------
(* Constants and terms. *)

LEMMA PeerIs ==
    /\ \A n \in Nodes : Peer(n) \in Nodes /\ Peer(n) # n /\ Peer(Peer(n)) = n
    /\ \A n, k \in Nodes : k = n \/ k = Peer(n)
<1>1. PICK a, b \in Nodes : a # b /\ Nodes = {a, b}
  BY AuditAssumption
<1>2. Peer(a) = b /\ Peer(b) = a
  BY <1>1 DEF Peer
<1> QED BY <1>1, <1>2

LEMMA ConstantTypes ==
    /\ Limits \subseteq Nat /\ FirstLimit \in Limits
    /\ \A t \in Changes : Amount[t] \in Limits /\ Owner[t] \in Nodes /\ t \in Transactions
    /\ \A r \in Resolvers : r \in Transactions
    /\ \A n \in Nodes : \A k \in 1 .. MaxResolvers : <<n, k>> \in Resolvers
BY AuditAssumption DEF Limits, Transactions, Resolvers

LEMMA MirrorTypes ==
    /\ \A t \in AuditTerms : Mirror(t) \in AuditTerms /\ Mirror(Mirror(t)) = t
                             /\ Mirror(t).number = t.number
    /\ \A t \in AuditTerms : LimitsOf(t) \in [outgoing : Limits, incoming : Limits]
    /\ AuditTerms \subseteq [number : Nat, outgoing : Nat, incoming : Nat]
    /\ NoTerms \in [number : Nat, outgoing : Nat, incoming : Nat]
<1>1. ASSUME NEW t \in AuditTerms
      PROVE  /\ Mirror(t) \in AuditTerms /\ Mirror(Mirror(t)) = t /\ Mirror(t).number = t.number
             /\ LimitsOf(t) \in [outgoing : Limits, incoming : Limits]
             /\ t \in [number : Nat, outgoing : Nat, incoming : Nat]
  <2>1. t = [number |-> t.number, outgoing |-> t.outgoing, incoming |-> t.incoming]
    BY <1>1 DEF AuditTerms
  <2>2. t.number \in Nat /\ t.outgoing \in Limits /\ t.incoming \in Limits
    BY <1>1 DEF AuditTerms
  <2> QED BY <2>1, <2>2, ConstantTypes DEF AuditTerms, Mirror, LimitsOf
<1> QED BY <1>1 DEF NoTerms

-----------------------------------------------------------------------------
(* What follows from a step alone. *)

\* A node's audit is not taken back: it stays, or its number grows.
LEMMA SavedGrows ==
    ASSUME AuditInv, SavedStep, Typed', NEW n \in Nodes
    PROVE  /\ saved[n].number \in Nat /\ saved'[n].number \in Nat
           /\ saved'[n] = saved[n] \/ saved[n].number < saved'[n].number
BY DEF SavedStep, AuditInv, Typed, AuditTerms

LEMMA BackedStays ==
    ASSUME AuditInv, SavedStep, Typed', NEW n \in Nodes, NEW terms, Backed(n, terms)
    PROVE  Backed(n, terms)'
<1>1. /\ terms.number \in Nat /\ saved[n].number \in Nat /\ saved'[n].number \in Nat
      /\ saved'[n] = saved[n] \/ saved[n].number < saved'[n].number
  BY SavedGrows DEF Backed, AuditTerms
<1> QED BY <1>1 DEF Backed

LEMMA FitsStays ==
    ASSUME AuditInv, SavedStep, Typed', NEW n \in Nodes, NEW m, Fits(n, m)
    PROVE  Fits(n, m)'
<1>1. m.type = "ConflictResolver" \/ (m.type = "AuditConfirmation" /\ m.answer = "OK") => Backed(n, m.terms)'
  BY BackedStays DEF Fits
<1>2. m.type = "Audit" => m.terms \in AuditTerms /\ m.terms.number <= saved'[n].number + 1
  <2>1. m.type = "Audit" => m.terms \in AuditTerms /\ m.terms.number \in Nat /\ m.terms.number <= saved[n].number + 1
    BY DEF Fits, AuditTerms
  <2> QED BY <2>1, SavedGrows
<1> QED BY <1>1, <1>2 DEF Fits

LEMMA StepKeeps ==
    ASSUME AuditInv, Step
    PROVE  AuditInv'
<1>1. FormsFit'
  <2>1. ASSUME NEW n \in Nodes, NEW t \in Changes PROVE form'[n][t] <= saved'[n].number + 1
    <3>1. form'[n][t] \in {form[n][t], 0, saved'[n].number + 1} /\ form[n][t] \in Nat
          /\ form[n][t] <= saved[n].number + 1
      BY DEF Step, FormStep, AuditInv, FormsFit, Typed
    <3> QED BY <3>1, SavedGrows DEF Step
  <2> QED BY <2>1 DEF FormsFit
<1>2. SentFit'
  <2>1. ASSUME NEW n \in Nodes, NEW m \in outbox'[n] \cup link'[n] PROVE Fits(n, m)'
    <3>1. CASE New(n, m)
      BY <3>1 DEF New
    <3>2. CASE Fits(n, m)
      BY <3>2, FitsStays DEF Step
    <3> QED BY <2>1, <3>1, <3>2 DEF Step, SentStep, AuditInv, SentFit, CacheFits
  <2> QED BY <2>1 DEF SentFit
<1>3. CacheFits'
  <2>1. ASSUME NEW n \in Nodes, cache'[n] # NothingCached, NEW m, m = cache'[n].answer
        PROVE  Fits(n, m)' /\ m.type \in {"Confirmation", "AuditConfirmation"}
    <3>1. CASE cache'[n] = cache[n]
      <4>1. Fits(n, m) /\ m.type \in {"Confirmation", "AuditConfirmation"}
        BY <2>1, <3>1 DEF AuditInv, CacheFits, HasCached
      <4> QED BY <4>1, FitsStays DEF Step
    <3> QED BY <2>1, <3>1 DEF Step, CacheStep
  <2>2. ASSUME NEW n \in Nodes, cache'[n] # NothingCached
        PROVE  (Fits(n, cache[n].answer) /\ cache[n].answer.type \in {"Confirmation", "AuditConfirmation"})'
    <3>1. PICK m : m = cache'[n].answer
      OBVIOUS
    <3>2. Fits(n, m)' /\ m.type \in {"Confirmation", "AuditConfirmation"}
      BY <2>1, <2>2, <3>1
    <3> QED BY <3>1, <3>2
  <2> QED BY <2>2 DEF CacheFits, HasCached
<1> QED BY <1>1, <1>2, <1>3 DEF AuditInv, Step

\* What a node asks for after a step it asked for, or is the next audit.
LEMMA NewlyAsked ==
    ASSUME AuditInv, Step, NEW n \in Nodes, NEW k, Asks(n, k)'
    PROVE  Asks(n, k) \/ k = 0 \/ k = saved'[n].number + 1
<1>1. ASSUME NEW t \in Changes, Owner[t] = n, form'[n][t] = k
      PROVE  Asks(n, k) \/ k = 0 \/ k = saved'[n].number + 1
  BY <1>1 DEF Step, FormStep, Asks
<1>2. ASSUME NEW m \in outbox'[n] \cup link'[n], m.type = "Audit", m.terms.number = k
      PROVE  Asks(n, k)
  BY <1>2 DEF Step, SentStep, New, Asks, AuditInv, CacheFits
<1> QED BY <1>1, <1>2 DEF Asks

(***************************************************************************)
(* The one that is behind takes the audit of the other one; who takes a    *)
(* new one was level with the other.                                       *)
(***************************************************************************)
LEMMA CopyFollows ==
    ASSUME AuditInv, Levels, NEW n \in Nodes, NEW terms \in AuditTerms,
           saved[n].number < terms.number, Copies(n, terms)
    PROVE  /\ saved[Peer(n)].number = saved[n].number + 1
           /\ terms = Mirror(saved[Peer(n)])
<1>1. /\ Mirror(terms).number = terms.number /\ Mirror(Mirror(terms)) = terms
      /\ terms.number \in Nat
  BY MirrorTypes DEF AuditTerms
<1>2. /\ saved[n].number \in Nat /\ saved[Peer(n)].number \in Nat
      /\ saved[Peer(n)].number <= saved[n].number + 1
  BY PeerIs DEF AuditInv, Typed, AuditTerms, Levels
<1>3. terms.number <= saved[Peer(n)].number
  BY <1>1 DEF Copies, Backed
<1>4. terms.number = saved[Peer(n)].number /\ saved[Peer(n)].number = saved[n].number + 1
  BY <1>1, <1>2, <1>3
<1> QED BY <1>1, <1>4 DEF Copies, Backed

LEMMA SigningLeads ==
    ASSUME AuditInv, Levels, NoCrossing, NEW n \in Nodes, NEW m, Signs(n, m)
    PROVE  /\ saved[Peer(n)].number = saved[n].number
           /\ m.terms.number = saved[n].number + 1
           /\ ~Asks(n, m.terms.number)
<1>1. /\ m \in link[Peer(n)] /\ m.type = "Audit" /\ Peer(n) \in Nodes /\ Peer(Peer(n)) = n
  BY PeerIs DEF Signs, Arrived
<1>2. /\ m.terms \in AuditTerms /\ m.terms.number <= saved[Peer(n)].number + 1 /\ m.tx \in Changes
      /\ Asks(Peer(n), m.terms.number)
  BY <1>1 DEF AuditInv, SentFit, Fits, Asks
<1>3. m.terms.number = TargetNumber(n, m) /\ saved[n].number < m.terms.number
  BY DEF Signs, Signed, Mirror, TargetTerms, CanSave
<1>4. /\ saved[n].number \in Nat /\ saved[Peer(n)].number \in Nat /\ m.terms.number \in Nat
  BY <1>1, <1>2 DEF AuditInv, Typed, AuditTerms
<1>5. m.terms.number <= saved[n].number + 1
  BY <1>2, <1>3, <1>4 DEF TargetNumber, NextNumber, AuditInv, FormsFit
<1>6. m.terms.number = saved[n].number + 1
  BY <1>3, <1>4, <1>5
<1>7. saved[Peer(n)].number # saved[n].number + 1
  BY <1>1, <1>2, <1>6 DEF Levels
<1>8. /\ saved[Peer(n)].number <= saved[n].number + 1
  BY <1>1 DEF Levels
<1> QED BY <1>2, <1>4, <1>6, <1>7, <1>8 DEF NoCrossing

LEMMA StepLevels ==
    ASSUME AuditInv, Step, Levels, NoCrossing
    PROVE  Levels'
<1> DEFINE Level(n) ==
        /\ saved[n].number <= saved[Peer(n)].number + 1
        /\ saved[n].number = saved[Peer(n)].number => saved[n] = Mirror(saved[Peer(n)])
        /\ saved[n].number = saved[Peer(n)].number + 1 => ~Asks(n, saved[n].number)
<1>1. \A n \in Nodes : saved[n] \in AuditTerms /\ saved[n].number \in Nat
                       /\ saved'[n] \in AuditTerms /\ saved'[n].number \in Nat
  BY DEF Step, AuditInv, Typed, AuditTerms
<1>2. CASE UNCHANGED saved
  <2>1. ASSUME NEW n \in Nodes, saved[n].number = saved[Peer(n)].number + 1
        PROVE  ~Asks(n, saved[n].number)'
    <3>1. ~Asks(n, saved[n].number) /\ saved[n].number # 0 /\ saved[n].number # saved[n].number + 1
      BY <1>1, <2>1, PeerIs DEF Levels
    <3> QED BY <1>2, <3>1, NewlyAsked
  <2> QED BY <1>2, <2>1 DEF Levels
<1>3. ASSUME NEW n \in Nodes, NEW terms \in AuditTerms, saved' = [saved EXCEPT ![n] = terms],
             saved[n].number < terms.number, Copies(n, terms)
      PROVE  Levels'
  <2>1. /\ saved[Peer(n)].number = saved[n].number + 1 /\ terms = Mirror(saved[Peer(n)])
    BY <1>3, CopyFollows
  <2>2. saved'[n] = terms /\ saved'[Peer(n)] = saved[Peer(n)]
    BY <1>3, PeerIs DEF AuditInv, Typed
  <2>3. terms.number = saved[Peer(n)].number /\ Mirror(terms) = saved[Peer(n)]
    BY <1>1, <2>1, MirrorTypes, PeerIs
  <2>4. \A k \in Nodes : Level(k)'
    <3>1. Level(n)'
      BY <1>1, <2>1, <2>2, <2>3, PeerIs
    <3>2. Level(Peer(n))'
      BY <1>1, <2>1, <2>2, <2>3, PeerIs
    <3> QED BY <3>1, <3>2, PeerIs
  <2> QED BY <2>4 DEF Levels
<1>4. ASSUME NEW n \in Nodes, NEW terms \in AuditTerms, saved' = [saved EXCEPT ![n] = terms],
             NEW m, Signs(n, m), terms = Mirror(m.terms)
      PROVE  Levels'
  <2>1. /\ saved[Peer(n)].number = saved[n].number /\ m.terms.number = saved[n].number + 1
        /\ ~Asks(n, m.terms.number)
    BY <1>4, SigningLeads
  <2>2. saved'[n] = terms /\ saved'[Peer(n)] = saved[Peer(n)] /\ terms.number = m.terms.number
    BY <1>4, PeerIs DEF AuditInv, Typed, Mirror
  <2>3. ~Asks(n, terms.number)'
    BY <1>1, <1>4, <2>1, <2>2, NewlyAsked
  <2>4. \A k \in Nodes : Level(k)'
    <3>1. Level(n)'
      BY <1>1, <2>1, <2>2, <2>3, PeerIs
    <3>2. Level(Peer(n))'
      BY <1>1, <2>1, <2>2, <2>3, PeerIs
    <3> QED BY <3>1, <3>2, PeerIs
  <2> QED BY <2>4 DEF Levels
<1> QED BY <1>2, <1>3, <1>4 DEF Step, SavedStep

-----------------------------------------------------------------------------
(* Messages. *)

LEMMA ArrivedIs ==
    ASSUME AuditInv, NEW n \in Nodes, NEW type, NEW m \in Arrived(n, type)
    PROVE  /\ m \in Messages /\ m.type = type /\ Fits(Peer(n), m) /\ up[n]
           /\ type \in {"SetIncoming", "Audit"} => m.tx \in Changes /\ Owner[m.tx] # n
           /\ type \in {"Confirmation", "AuditConfirmation"} => m.tx \in Changes /\ Owner[m.tx] = n
           /\ type \in {"ConflictResolver", "ResolverConfirmation"} => m.tx \in Resolvers
<1>1. m \in link[Peer(n)] /\ m.type = type /\ up[n] /\ Peer(n) \in Nodes /\ Peer(n) # n
  BY PeerIs DEF Arrived
<1>2. Fits(Peer(n), m)
  BY <1>1 DEF AuditInv, SentFit
<1>3. m.tx \in Changes => Owner[m.tx] \in {n, Peer(n)}
  BY PeerIs, ConstantTypes
<1> QED BY <1>1, <1>2, <1>3 DEF Fits

LEMMA LinkIs ==
    ASSUME Typed, NEW n \in Nodes, NEW sent \in SUBSET Messages,
           Sends(n, sent) \/ \E m : Exchanges(n, m, sent)
    PROVE  /\ link' \in [Nodes -> SUBSET Messages]
           /\ \A k \in Nodes : \A m \in link'[k] : m \in link[k] \/ (k = n /\ m \in sent)
<1>1. OnLink(n, sent) \subseteq link[n] \cup sent /\ OnLink(n, sent) \in SUBSET Messages
  BY DEF OnLink, Typed
<1>2. CASE Sends(n, sent)
  BY <1>1, <1>2 DEF Sends, Typed
<1>3. ASSUME NEW m, Exchanges(n, m, sent)
      PROVE  /\ link' \in [Nodes -> SUBSET Messages]
             /\ \A k \in Nodes : \A x \in link'[k] : x \in link[k] \/ (k = n /\ x \in sent)
  <2>1. Peer(n) \in Nodes /\ Peer(n) # n
    BY PeerIs
  <2>2. link' = [link EXCEPT ![Peer(n)] = link[Peer(n)] \ {m}, ![n] = OnLink(n, sent)]
    BY <1>3 DEF Exchanges
  <2>3. link \in [Nodes -> SUBSET Messages]
    BY DEF Typed
  <2>4. link' \in [Nodes -> SUBSET Messages]
    BY <1>1, <2>1, <2>2, <2>3
  <2>5. /\ link'[n] = OnLink(n, sent) /\ link'[Peer(n)] = link[Peer(n)] \ {m}
    BY <2>1, <2>2, <2>3
  <2> QED BY <1>1, <2>4, <2>5, PeerIs
<1> QED BY <1>2, <1>3

\* What n may send in a step: what is new and fits, and its cached answer.
MaySend(n, m) == New(n, m) \/ (HasCached(n) /\ m = cache[n].answer)

LEMMA SentIs ==
    ASSUME Typed, NEW n \in Nodes, NEW sent \in SUBSET Messages, \A m \in sent : MaySend(n, m),
           UNCHANGED link \/ Sends(n, sent) \/ \E m : Exchanges(n, m, sent),
           \A k \in Nodes : \A m \in outbox'[k] : m \in outbox[k] \/ (k = n /\ m \in sent)
    PROVE  SentStep /\ link' \in [Nodes -> SUBSET Messages]
<1>1. /\ link' \in [Nodes -> SUBSET Messages]
      /\ \A k \in Nodes : \A m \in link'[k] : m \in link[k] \/ (k = n /\ m \in sent)
  BY LinkIs DEF Typed
<1> QED BY <1>1 DEF SentStep, MaySend

LEMMA PostedIs ==
    ASSUME Typed, NEW n \in Nodes, NEW m \in Messages, m.type \in Requests,
           outbox' = [outbox EXCEPT ![n] = Posted(n, m)]
    PROVE  /\ outbox' \in [Nodes -> SUBSET {x \in Messages : x.type \in Requests}]
           /\ \A k \in Nodes : \A x \in outbox'[k] : x \in outbox[k] \/ (k = n /\ x \in {m})
BY DEF Typed, Posted

LEMMA UnpostedIs ==
    ASSUME Typed, NEW n \in Nodes, NEW t, outbox' = [outbox EXCEPT ![n] = Unposted(n, t)]
    PROVE  /\ outbox' \in [Nodes -> SUBSET {x \in Messages : x.type \in Requests}]
           /\ \A k \in Nodes : outbox'[k] \subseteq outbox[k]
BY DEF Typed, Unposted

\* n sends nothing: it takes a message, or the link stays.
LEMMA NothingSent ==
    ASSUME Typed, NEW n \in Nodes, UNCHANGED link \/ \E m : Exchanges(n, m, {}),
           \A k \in Nodes : outbox'[k] \subseteq outbox[k]
    PROVE  SentStep /\ link' \in [Nodes -> SUBSET Messages]
BY SentIs

-----------------------------------------------------------------------------
(* Setting a limit. *)

LEMMA LimitSet ==
    ASSUME Typed, NEW n \in Nodes, NEW x \in Limits,
           \/ limits' = [limits EXCEPT ![n].outgoing = x]
           \/ limits' = [limits EXCEPT ![n].incoming = x]
           \/ UNCHANGED limits
    PROVE  limits' \in [Nodes -> [outgoing : Limits, incoming : Limits]]
<1>1. limits[n] \in [outgoing : Limits, incoming : Limits]
  BY DEF Typed
<1>2. /\ [limits[n] EXCEPT !.outgoing = x] \in [outgoing : Limits, incoming : Limits]
      /\ [limits[n] EXCEPT !.incoming = x] \in [outgoing : Limits, incoming : Limits]
  BY <1>1
<1> QED BY <1>2 DEF Typed

LEMMA SetOutgoingStep ==
    ASSUME AuditInv, NEW n \in Nodes, NEW t \in Changes, SetOutgoing(n, t)
    PROVE  Step
<1>0. Typed
  BY DEF AuditInv
<1>1. PICK m : m = Request("SetIncoming", t, NoTerms)
  OBVIOUS
<1>2. m \in Messages /\ m.type = "SetIncoming" /\ m.tx = t /\ m.answer = "none"
  BY <1>1, ConstantTypes, MirrorTypes DEF Request, Message, Messages, Requests
<1>3. New(n, m)
  BY <1>2 DEF New, Fits, SetOutgoing
<1>4. outbox' = [outbox EXCEPT ![n] = Posted(n, m)] /\ Sends(n, {m})
  BY <1>1 DEF SetOutgoing
<1>5. /\ outbox' \in [Nodes -> SUBSET {x \in Messages : x.type \in Requests}]
      /\ \A k \in Nodes : \A x \in outbox'[k] : x \in outbox[k] \/ (k = n /\ x \in {m})
  BY <1>0, <1>2, <1>4, PostedIs DEF Requests
<1>6. SentStep /\ link' \in [Nodes -> SUBSET Messages]
  BY <1>0, <1>2, <1>3, <1>4, <1>5, SentIs DEF MaySend
<1>7. FormStep /\ form' \in [Nodes -> [Changes -> Nat]]
  BY <1>0 DEF SetOutgoing, FormStep, Typed, NextNumber, AuditTerms
<1>8. TasksFit' /\ task' \in [Nodes -> [Transactions -> Stages]]
  BY <1>0, ConstantTypes DEF SetOutgoing, TasksFit, AuditInv, Typed, Stages
<1>9. limits' \in [Nodes -> [outgoing : Limits, incoming : Limits]]
  BY <1>0, ConstantTypes, LimitSet DEF SetOutgoing
<1>10. /\ state' \in [Nodes -> States] /\ begun' \subseteq Transactions
  BY <1>0, ConstantTypes DEF SetOutgoing, Typed, States
<1>11. Typed'
  BY <1>0, <1>5, <1>6, <1>7, <1>8, <1>9, <1>10 DEF SetOutgoing, Typed
<1> QED BY <1>6, <1>7, <1>8, <1>11 DEF Step, SetOutgoing, SavedStep, CacheStep

LEMMA ChangeAnsweredStep ==
    ASSUME AuditInv, NEW n \in Nodes,
           NEW m \in Arrived(n, "Confirmation") \cup Arrived(n, "AuditConfirmation"),
           ChangeAccepted(n, m) \/ ChangeRefused(n, m)
    PROVE  Step
<1>0. Typed /\ m.tx \in Changes /\ Owner[m.tx] = n /\ m.tx \in Transactions /\ Amount[m.tx] \in Limits
  BY ArrivedIs, ConstantTypes DEF AuditInv
<1>1. limits' \in [Nodes -> [outgoing : Limits, incoming : Limits]]
  BY <1>0, LimitSet DEF ChangeAccepted, ChangeRefused
<1>2. SentStep /\ link' \in [Nodes -> SUBSET Messages]
      /\ outbox' \in [Nodes -> SUBSET {x \in Messages : x.type \in Requests}]
  <2>1. /\ outbox' \in [Nodes -> SUBSET {x \in Messages : x.type \in Requests}]
        /\ \A k \in Nodes : outbox'[k] \subseteq outbox[k]
    <3>1. CASE ChangeAccepted(n, m)
      BY <1>0, <3>1, UnpostedIs DEF ChangeAccepted
    <3>2. CASE ChangeRefused(n, m)
      BY <1>0, <3>2 DEF ChangeRefused, Typed
    <3> QED BY <3>1, <3>2
  <2>2. Exchanges(n, m, {})
    BY DEF ChangeAccepted, ChangeRefused
  <2> QED BY <1>0, <2>1, <2>2, NothingSent
<1>3. FormStep /\ form' \in [Nodes -> [Changes -> Nat]]
  <2>1. UNCHANGED form \/ form' = [form EXCEPT ![n][m.tx] = 0]
    BY DEF ChangeAccepted, ChangeRefused
  <2>2. CASE UNCHANGED form
    BY <1>0, <2>2 DEF FormStep, Typed
  <2>3. CASE form' = [form EXCEPT ![n][m.tx] = 0]
    BY <1>0, <2>3 DEF FormStep, Typed
  <2> QED BY <2>1, <2>2, <2>3
<1>4. TasksFit' /\ task' \in [Nodes -> [Transactions -> Stages]]
  <2>1. PICK stage \in {"auditing", "none"} : task' = [task EXCEPT ![n][m.tx] = stage]
    BY DEF ChangeAccepted, ChangeRefused, Ends
  <2> QED BY <1>0, <2>1 DEF TasksFit, AuditInv, Typed, Stages, OwnStages
<1>5. state' \in [Nodes -> States]
  BY <1>0 DEF ChangeAccepted, ChangeRefused, Typed, States
<1>6. Typed'
  BY <1>0, <1>1, <1>2, <1>3, <1>4, <1>5 DEF ChangeAccepted, ChangeRefused, Typed
<1>7. UNCHANGED <<saved, cache>>
  BY DEF ChangeAccepted, ChangeRefused
<1> QED BY <1>2, <1>3, <1>4, <1>6, <1>7 DEF Step, SavedStep, CacheStep

-----------------------------------------------------------------------------
(* The audit, on the side that asks for it. *)

LEMMA InitAuditStep ==
    ASSUME AuditInv, NEW n \in Nodes, NEW t \in Changes, InitAudit(n, t)
    PROVE  Step
<1>0. Typed /\ t \in Transactions
  BY ConstantTypes DEF AuditInv
<1>1. PICK m : m = Request("Audit", t, Terms(n, form[n][t]))
  OBVIOUS
<1>2. /\ Terms(n, form[n][t]) \in AuditTerms
      /\ Terms(n, form[n][t]).number = form[n][t]
  BY <1>0 DEF Terms, AuditTerms, Typed
<1>3. m \in Messages /\ m.type = "Audit" /\ m.tx = t /\ m.terms = Terms(n, form[n][t])
  BY <1>0, <1>1, <1>2, MirrorTypes DEF Request, Message, Messages, Requests
<1>4. Owner[t] = n
  BY <1>0 DEF InitAudit, AuditInv, TasksFit, OwnStages
<1>5. New(n, m)
  BY <1>2, <1>3, <1>4 DEF New, Fits, InitAudit, AuditInv, FormsFit
<1>6. outbox' = [outbox EXCEPT ![n] = Posted(n, m)] /\ Sends(n, {m})
  BY <1>1 DEF InitAudit
<1>7. /\ outbox' \in [Nodes -> SUBSET {x \in Messages : x.type \in Requests}]
      /\ \A k \in Nodes : \A x \in outbox'[k] : x \in outbox[k] \/ (k = n /\ x \in {m})
  BY <1>0, <1>3, <1>6, PostedIs DEF Requests
<1>8. SentStep /\ link' \in [Nodes -> SUBSET Messages]
  BY <1>0, <1>3, <1>5, <1>6, <1>7, SentIs DEF MaySend
<1>9. TasksFit' /\ task' \in [Nodes -> [Transactions -> Stages]]
  BY <1>0, <1>4 DEF InitAudit, TasksFit, AuditInv, Typed, Stages
<1>10. Typed'
  BY <1>0, <1>7, <1>8, <1>9 DEF InitAudit, Typed
<1> QED BY <1>8, <1>9, <1>10 DEF Step, InitAudit, SavedStep, FormStep, CacheStep

\* What the ways to take the answer to an audit have in common.
LEMMA AnswerTakenIs ==
    ASSUME AuditInv, NEW n \in Nodes,
           NEW m \in Arrived(n, "Confirmation") \cup Arrived(n, "AuditConfirmation"),
           AuditAnswerTaken(n, m)
    PROVE  /\ m.tx \in Changes /\ Owner[m.tx] = n /\ m.tx \in Transactions
           /\ limits' \in [Nodes -> [outgoing : Limits, incoming : Limits]]
           /\ SentStep /\ link' \in [Nodes -> SUBSET Messages]
           /\ outbox' \in [Nodes -> SUBSET {x \in Messages : x.type \in Requests}]
           /\ UNCHANGED <<up, cache, crashes>>
<1>0. Typed /\ m.tx \in Changes /\ Owner[m.tx] = n /\ m.tx \in Transactions /\ Amount[m.tx] \in Limits
  BY ArrivedIs, ConstantTypes DEF AuditInv
<1>1. limits' \in [Nodes -> [outgoing : Limits, incoming : Limits]]
  BY <1>0, LimitSet DEF AuditAnswerTaken
<1>2. /\ outbox' \in [Nodes -> SUBSET {x \in Messages : x.type \in Requests}]
      /\ \A k \in Nodes : outbox'[k] \subseteq outbox[k]
  BY <1>0, UnpostedIs DEF AuditAnswerTaken
<1>3. SentStep /\ link' \in [Nodes -> SUBSET Messages]
  BY <1>0, <1>2, NothingSent DEF AuditAnswerTaken
<1> QED BY <1>0, <1>1, <1>2, <1>3 DEF AuditAnswerTaken

\* The terms of an answer that is signed over the own ones are an audit of the peer.
LEMMA AuditAcceptedStep ==
    ASSUME AuditInv, NEW n \in Nodes,
           NEW m \in Arrived(n, "Confirmation") \cup Arrived(n, "AuditConfirmation"),
           AuditAccepted(n, m)
    PROVE  Step
<1>0. /\ Typed /\ AuditAnswerTaken(n, m) /\ m.answer = "OK" /\ m.tx \in Changes /\ Owner[m.tx] = n
      /\ m.tx \in Transactions /\ SentStep /\ link' \in [Nodes -> SUBSET Messages]
      /\ limits' \in [Nodes -> [outgoing : Limits, incoming : Limits]]
      /\ outbox' \in [Nodes -> SUBSET {x \in Messages : x.type \in Requests}]
      /\ UNCHANGED <<up, cache, crashes, begun>>
  BY AnswerTakenIs DEF AuditInv, AuditAccepted
<1>1. PICK terms : terms = OwnTerms(n, m.tx)
  OBVIOUS
<1>2. /\ terms \in AuditTerms /\ terms.number = form[n][m.tx] /\ m.terms = Mirror(terms)
  BY <1>0, <1>1 DEF OwnTerms, AuditTerms, Typed, AuditAccepted, Signed
<1>3. Copies(n, terms)
  <2>1. m.type = "AuditConfirmation"
    <3>1. ASSUME m.type = "Confirmation" PROVE FALSE
      <4>1. form[n][m.tx] # 0
        BY <1>0, <3>1 DEF AuditAnswerTaken, Relaunched
      <4>2. m.terms = NoTerms
        BY <3>1, ArrivedIs DEF Fits
      <4> QED BY <1>2, <4>1, <4>2 DEF Mirror, NoTerms
    <3> QED BY <3>1, ArrivedIs
  <2>2. Backed(Peer(n), m.terms)
    BY <1>0, <2>1, ArrivedIs DEF Fits
  <2> QED BY <1>2, <2>2 DEF Copies
<1>4. TasksFit' /\ task' \in [Nodes -> [Transactions -> Stages]]
  BY <1>0 DEF AuditAccepted, Ends, TasksFit, AuditInv, Typed, Stages, OwnStages
<1>5. CASE CanSave(n, form[n][m.tx])
  <2>1. /\ saved' = [saved EXCEPT ![n] = terms] /\ state' = [state EXCEPT ![n] = "Active"]
        /\ form' = [form EXCEPT ![n][m.tx] = 0]
    BY <1>1, <1>5 DEF AuditAccepted
  <2>2. saved[n].number < terms.number
    BY <1>2, <1>5 DEF CanSave, Typed, AuditTerms
  <2>3. SavedStep
    BY <1>2, <1>3, <2>1, <2>2 DEF SavedStep
  <2>4. FormStep /\ form' \in [Nodes -> [Changes -> Nat]]
    BY <1>0, <2>1 DEF FormStep, Typed
  <2>5. saved' \in [Nodes -> AuditTerms] /\ state' \in [Nodes -> States]
    BY <1>0, <1>2, <2>1 DEF Typed, States
  <2>6. Typed'
    BY <1>0, <1>4, <2>4, <2>5 DEF Typed
  <2> QED BY <1>0, <1>4, <2>3, <2>4, <2>6 DEF Step, CacheStep
<1>6. CASE ~CanSave(n, form[n][m.tx])
  <2>1. UNCHANGED <<saved, state, form>>
    BY <1>6 DEF AuditAccepted
  <2>2. Typed'
    BY <1>0, <1>4, <2>1 DEF Typed
  <2> QED BY <1>0, <1>4, <2>1, <2>2 DEF Step, CacheStep, SavedStep, FormStep
<1> QED BY <1>5, <1>6

LEMMA AuditWronglySignedStep ==
    ASSUME AuditInv, NEW n \in Nodes,
           NEW m \in Arrived(n, "Confirmation") \cup Arrived(n, "AuditConfirmation"),
           AuditWronglySigned(n, m)
    PROVE  Step
<1>0. /\ Typed /\ m.tx \in Changes /\ m.tx \in Transactions
      /\ SentStep /\ link' \in [Nodes -> SUBSET Messages]
      /\ limits' \in [Nodes -> [outgoing : Limits, incoming : Limits]]
      /\ outbox' \in [Nodes -> SUBSET {x \in Messages : x.type \in Requests}]
      /\ UNCHANGED <<up, cache, crashes, begun, saved, state>>
  BY AnswerTakenIs DEF AuditInv, AuditWronglySigned
<1>1. TasksFit' /\ task' \in [Nodes -> [Transactions -> Stages]]
  BY <1>0 DEF AuditWronglySigned, Ends, TasksFit, AuditInv, Typed, Stages, OwnStages
<1>2. FormStep /\ form' \in [Nodes -> [Changes -> Nat]]
  BY <1>0 DEF AuditWronglySigned, FormStep, Typed
<1>3. Typed'
  BY <1>0, <1>1, <1>2 DEF Typed
<1> QED BY <1>0, <1>1, <1>2, <1>3 DEF Step, CacheStep, SavedStep

\* A process that ends leaves what the others see.
LEMMA FallsKeeps ==
    ASSUME AuditInv, NEW n \in Nodes, Falls(n)
    PROVE  /\ up' \in [Nodes -> BOOLEAN] /\ TasksFit' /\ task' \in [Nodes -> [Transactions -> Stages]]
           /\ cache' \in [Nodes -> {NothingCached} \cup [filter : Requests, answer : Messages]]
           /\ CacheStep
<1>0. Typed
  BY DEF AuditInv
<1>1. up' \in [Nodes -> BOOLEAN]
  BY <1>0 DEF Falls, Typed
<1>2. TasksFit' /\ task' \in [Nodes -> [Transactions -> Stages]]
  BY <1>0 DEF Falls, TasksFit, AuditInv, Typed, Stages, OwnStages
<1>3. \A k \in Nodes : cache'[k] \in {cache[k], NothingCached}
  BY <1>0 DEF Falls, Typed
<1>4. cache' \in [Nodes -> {NothingCached} \cup [filter : Requests, answer : Messages]]
  BY <1>0 DEF Falls, Typed
<1> QED BY <1>1, <1>2, <1>3, <1>4 DEF CacheStep

LEMMA ConfirmationMisreadStep ==
    ASSUME AuditInv, NEW n \in Nodes, NEW m, ConfirmationMisread(n, m)
    PROVE  Step
<1>0. Typed /\ Falls(n) /\ UNCHANGED <<state, limits, saved, form, begun, crashes>>
  BY DEF AuditInv, ConfirmationMisread
<1>1. /\ outbox' \in [Nodes -> SUBSET {x \in Messages : x.type \in Requests}]
      /\ \A k \in Nodes : outbox'[k] \subseteq outbox[k]
  BY <1>0, UnpostedIs DEF ConfirmationMisread
<1>2. SentStep /\ link' \in [Nodes -> SUBSET Messages]
  BY <1>0, <1>1, NothingSent DEF ConfirmationMisread
<1>3. Typed'
  BY <1>0, <1>1, <1>2, FallsKeeps DEF Typed
<1> QED BY <1>0, <1>2, <1>3, FallsKeeps DEF Step, SavedStep, FormStep

LEMMA LaunchesIs ==
    ASSUME AuditInv, NEW n \in Nodes, NEW newTask \in [Nodes -> [Transactions -> Stages]],
           \A k \in Nodes : \A t \in Transactions : newTask[k][t] \in {task[k][t], "none"},
           Launches(n, newTask)
    PROVE  TasksFit' /\ task' \in [Nodes -> [Transactions -> Stages]] /\ begun' \subseteq Transactions
<1>1. PICK k \in 1 .. MaxResolvers :
          /\ begun' = begun \cup {<<n, k>>}
          /\ task' = [newTask EXCEPT ![n][<<n, k>>] = "resolving"]
  BY DEF Launches
<1>2. PICK r \in Transactions : r = <<n, k>>
  BY ConstantTypes
<1>3. task' \in [Nodes -> [Transactions -> Stages]]
  BY <1>1, <1>2 DEF Stages
<1>4. \A j \in Nodes : \A t \in Transactions : task'[j][t] \in {task[j][t], "none", "resolving"}
  BY <1>1, <1>2
<1>5. TasksFit'
  <2>1. TasksFit
    BY DEF AuditInv
  <2> QED BY <1>4, <2>1 DEF TasksFit, OwnStages
<1>6. begun' \subseteq Transactions
  BY <1>1, <1>2 DEF AuditInv, Typed
<1> QED BY <1>3, <1>5, <1>6

LEMMA AuditRefusedStep ==
    ASSUME AuditInv, NEW n \in Nodes,
           NEW m \in Arrived(n, "Confirmation") \cup Arrived(n, "AuditConfirmation"),
           AuditRefused(n, m)
    PROVE  Step
<1>0. /\ Typed /\ m.tx \in Changes /\ m.tx \in Transactions
      /\ SentStep /\ link' \in [Nodes -> SUBSET Messages]
      /\ limits' \in [Nodes -> [outgoing : Limits, incoming : Limits]]
      /\ outbox' \in [Nodes -> SUBSET {x \in Messages : x.type \in Requests}]
      /\ UNCHANGED <<up, cache, crashes, saved>>
  BY AnswerTakenIs DEF AuditInv, AuditRefused
<1>1. TasksFit' /\ task' \in [Nodes -> [Transactions -> Stages]] /\ begun' \subseteq Transactions
  <2>1. PICK newTask : newTask = [task EXCEPT ![n][m.tx] = "none"]
    OBVIOUS
  <2>2. /\ newTask \in [Nodes -> [Transactions -> Stages]]
        /\ \A k \in Nodes : \A t \in Transactions : newTask[k][t] \in {task[k][t], "none"}
    BY <1>0, <2>1 DEF Typed, Stages
  <2> QED BY <2>1, <2>2, LaunchesIs DEF AuditRefused
<1>2. FormStep /\ form' \in [Nodes -> [Changes -> Nat]]
  BY <1>0 DEF AuditRefused, FormStep, Typed
<1>3. state' \in [Nodes -> States]
  BY <1>0 DEF AuditRefused, Typed, States
<1>4. Typed'
  BY <1>0, <1>1, <1>2, <1>3 DEF Typed
<1> QED BY <1>0, <1>1, <1>2, <1>4 DEF Step, CacheStep, SavedStep

-----------------------------------------------------------------------------
(* The contractor. *)

LEMMA AnswersAndCachesIs ==
    ASSUME AuditInv, NEW n \in Nodes, NEW m, m.type \in Requests, NEW answer \in Messages,
           answer.type \in {"Confirmation", "AuditConfirmation"}, Fits(n, answer)',
           AnswersAndCaches(n, m, answer), UNCHANGED outbox
    PROVE  /\ CacheStep /\ SentStep /\ link' \in [Nodes -> SUBSET Messages]
           /\ cache' \in [Nodes -> {NothingCached} \cup [filter : Requests, answer : Messages]]
<1>0. Typed /\ cache' = [cache EXCEPT ![n] = [filter |-> m.type, answer |-> answer]]
  BY DEF AuditInv, AnswersAndCaches
<1>1. New(n, answer)
  BY DEF New
<1>2. SentStep /\ link' \in [Nodes -> SUBSET Messages]
  <2>1. /\ Exchanges(n, m, {answer}) /\ {answer} \in SUBSET Messages
        /\ \A x \in {answer} : MaySend(n, x)
        /\ \A k \in Nodes : \A x \in outbox'[k] : x \in outbox[k]
    BY <1>1 DEF MaySend, AnswersAndCaches
  <2> QED BY <1>0, <2>1, SentIs
<1>3. cache' \in [Nodes -> {NothingCached} \cup [filter : Requests, answer : Messages]]
  BY <1>0 DEF Typed
<1>4. CacheStep
  <2>1. cache'[n].answer = answer /\ \A k \in Nodes : k # n => cache'[k] = cache[k]
    BY <1>0 DEF Typed
  <2> QED BY <2>1 DEF CacheStep
<1> QED BY <1>2, <1>3, <1>4

LEMMA AnswerFromCacheStep ==
    ASSUME AuditInv, NEW n \in Nodes, NEW type \in Requests, NEW m \in Arrived(n, type),
           AnswerFromCache(n, m)
    PROVE  Step
<1>0. Typed /\ UNCHANGED <<up, state, limits, saved, form, task, outbox, cache, begun, crashes>>
  BY DEF AuditInv, AnswerFromCache
<1>1. HasCached(n)
  BY ArrivedIs DEF AnswerFromCache, Cached, HasCached, NothingCached, Requests
<1>2. cache[n].answer \in Messages
  BY <1>1 DEF AuditInv, CacheFits, Fits
<1>3. SentStep /\ link' \in [Nodes -> SUBSET Messages]
  BY <1>0, <1>1, <1>2, SentIs DEF MaySend, AnswerFromCache
<1>4. Typed'
  BY <1>0, <1>3 DEF Typed
<1>5. TasksFit'
  BY <1>0 DEF AuditInv, TasksFit
<1> QED BY <1>0, <1>3, <1>4, <1>5 DEF Step, SavedStep, FormStep, CacheStep

LEMMA SetIncomingStep ==
    ASSUME AuditInv, NEW n \in Nodes, NEW m \in Arrived(n, "SetIncoming"), SetIncoming(n, m)
    PROVE  Step
<1>0. /\ Typed /\ m.tx \in Changes /\ Owner[m.tx] # n /\ m.tx \in Transactions /\ m.type = "SetIncoming"
      /\ Amount[m.tx] \in Limits /\ UNCHANGED <<up, saved, outbox, begun, crashes>>
  BY ArrivedIs, ConstantTypes DEF AuditInv, SetIncoming
<1>1. PICK answer : answer = Message("Confirmation", m.tx, "OK", NoTerms)
  OBVIOUS
<1>2. /\ answer \in Messages /\ answer.type = "Confirmation" /\ answer.tx = m.tx
      /\ answer.terms = NoTerms
  BY <1>0, <1>1, MirrorTypes DEF Message, Messages
<1>3. Fits(n, answer)'
  BY <1>0, <1>2 DEF Fits
<1>4. /\ CacheStep /\ SentStep /\ link' \in [Nodes -> SUBSET Messages]
      /\ cache' \in [Nodes -> {NothingCached} \cup [filter : Requests, answer : Messages]]
  BY <1>0, <1>1, <1>2, <1>3, AnswersAndCachesIs DEF SetIncoming, Requests
<1>5. FormStep /\ form' \in [Nodes -> [Changes -> Nat]]
  BY <1>0 DEF SetIncoming, FormStep, Typed, NextNumber, AuditTerms
<1>6. TasksFit' /\ task' \in [Nodes -> [Transactions -> Stages]]
  BY <1>0 DEF SetIncoming, TasksFit, AuditInv, Typed, Stages, OwnStages
<1>7. limits' \in [Nodes -> [outgoing : Limits, incoming : Limits]]
  BY <1>0, LimitSet DEF SetIncoming
<1>8. state' \in [Nodes -> States]
  BY <1>0 DEF SetIncoming, Typed, States
<1>9. Typed'
  BY <1>0, <1>4, <1>5, <1>6, <1>7, <1>8 DEF Typed
<1> QED BY <1>0, <1>4, <1>5, <1>6, <1>9 DEF Step, SavedStep

\* A refusal is of the change that was asked for.
LEMMA RefusalIs ==
    ASSUME AuditInv, UNCHANGED saved, NEW n \in Nodes, NEW t \in Changes, Owner[t] # n,
           NEW type \in {"Confirmation", "AuditConfirmation"}, NEW m,
           m = Message(type, t, "Error", NoTerms)
    PROVE  m \in Messages /\ New(n, m)
<1>1. /\ m \in Messages /\ m.type = type /\ m.tx = t /\ m.answer = "Error" /\ m.terms = NoTerms
  BY ConstantTypes, MirrorTypes DEF Message, Messages
<1> QED BY <1>1 DEF New, Fits

LEMMA RefuseIncomingStep ==
    ASSUME AuditInv, NEW n \in Nodes, NEW m \in Arrived(n, "SetIncoming"), RefuseIncoming(n, m)
    PROVE  Step
<1>0. /\ Typed /\ m.tx \in Changes /\ Owner[m.tx] # n
      /\ UNCHANGED <<up, state, limits, saved, form, task, outbox, cache, begun, crashes>>
  BY ArrivedIs DEF AuditInv, RefuseIncoming
<1>1. PICK refusal : refusal = Message("Confirmation", m.tx, "Error", NoTerms)
  OBVIOUS
<1>2. refusal \in Messages /\ New(n, refusal)
  BY <1>0, <1>1, RefusalIs
<1>3. Exchanges(n, m, {refusal}) \/ Exchanges(n, m, {})
  BY <1>1 DEF RefuseIncoming
<1>4. SentStep /\ link' \in [Nodes -> SUBSET Messages]
  <2>1. CASE Exchanges(n, m, {refusal})
    BY <1>0, <1>2, <2>1, SentIs DEF MaySend
  <2>2. CASE Exchanges(n, m, {})
    BY <1>0, <2>2, NothingSent
  <2> QED BY <1>3, <2>1, <2>2
<1>5. Typed'
  BY <1>0, <1>4 DEF Typed
<1>6. TasksFit'
  BY <1>0 DEF AuditInv, TasksFit
<1> QED BY <1>0, <1>4, <1>5, <1>6 DEF Step, SavedStep, FormStep, CacheStep

LEMMA TargetIs ==
    ASSUME AuditInv, NEW n \in Nodes, NEW m \in Arrived(n, "Audit")
    PROVE  /\ TargetLimits(n, m) \in [outgoing : Limits, incoming : Limits]
           /\ TargetTerms(n, m) \in AuditTerms
           /\ TargetTerms(n, m).number = TargetNumber(n, m)
<1>0. Typed /\ m.tx \in Changes /\ Amount[m.tx] \in Limits
  BY ArrivedIs, ConstantTypes DEF AuditInv
<1>1. limits[n] \in [outgoing : Limits, incoming : Limits]
  BY <1>0 DEF Typed
<1>2. [limits[n] EXCEPT !.incoming = Amount[m.tx]] \in [outgoing : Limits, incoming : Limits]
  BY <1>0, <1>1
<1>3. TargetLimits(n, m) \in [outgoing : Limits, incoming : Limits]
  BY <1>1, <1>2 DEF TargetLimits
<1>4. TargetNumber(n, m) \in Nat
  BY <1>0 DEF TargetNumber, NextNumber, Typed, AuditTerms
<1> QED BY <1>3, <1>4 DEF TargetTerms, AuditTerms

\* The transaction that was to be audited ends.
LEMMA AuditTakenIs ==
    ASSUME AuditInv, NEW n \in Nodes, NEW m \in Arrived(n, "Audit"), AuditTaken(n, m)
    PROVE  /\ Typed /\ m.tx \in Changes /\ Owner[m.tx] # n /\ m.type = "Audit"
           /\ TasksFit' /\ task' \in [Nodes -> [Transactions -> Stages]]
           /\ UNCHANGED <<up, outbox, begun, crashes>>
<1>0. /\ Typed /\ m.tx \in Changes /\ Owner[m.tx] # n /\ m.type = "Audit" /\ m.tx \in Transactions
  BY ArrivedIs, ConstantTypes DEF AuditInv
<1>1. TasksFit' /\ task' \in [Nodes -> [Transactions -> Stages]]
  BY <1>0 DEF AuditTaken, Ends, TasksFit, AuditInv, Typed, Stages, OwnStages
<1> QED BY <1>0, <1>1 DEF AuditTaken

LEMMA SignAuditStep ==
    ASSUME AuditInv, NEW n \in Nodes, NEW m \in Arrived(n, "Audit"), SignAudit(n, m)
    PROVE  Step
<1>0. /\ Typed /\ m.tx \in Changes /\ Owner[m.tx] # n /\ m.type = "Audit"
      /\ TasksFit' /\ task' \in [Nodes -> [Transactions -> Stages]]
      /\ UNCHANGED <<up, outbox, begun, crashes>>
  BY AuditTakenIs DEF SignAudit
<1>1. PICK terms \in AuditTerms : terms = TargetTerms(n, m) /\ terms.number = TargetNumber(n, m)
  BY TargetIs
<1>2. /\ saved' = [saved EXCEPT ![n] = terms] /\ saved[n].number < terms.number
      /\ m.terms = Mirror(terms) /\ CanSave(n, TargetNumber(n, m)) /\ state[n] = "AuditPending"
  BY <1>0, <1>1 DEF SignAudit, CanSave, Signed, Typed, AuditTerms
<1>3. SavedStep
  <2>1. Signs(n, m) /\ terms = Mirror(m.terms)
    BY <1>1, <1>2, MirrorTypes DEF Signs, Signed
  <2> QED BY <1>2, <2>1 DEF SavedStep
<1>4. FormStep /\ form' \in [Nodes -> [Changes -> Nat]]
  BY <1>0 DEF SignAudit, FormStep, Typed
<1>5. PICK answer : answer = Message("AuditConfirmation", m.tx, "OK", terms)
  OBVIOUS
<1>6. /\ answer \in Messages /\ answer.type = "AuditConfirmation" /\ answer.tx = m.tx
      /\ answer.terms = terms /\ answer.answer = "OK"
  BY <1>0, <1>5, ConstantTypes, MirrorTypes DEF Message, Messages
<1>7. Backed(n, terms)'
  <2>1. saved'[n] = terms /\ terms.number \in Nat
    BY <1>0, <1>2 DEF Typed, AuditTerms
  <2> QED BY <2>1 DEF Backed
<1>8. Fits(n, answer)'
  BY <1>0, <1>6, <1>7 DEF Fits
<1>9. /\ CacheStep /\ SentStep /\ link' \in [Nodes -> SUBSET Messages]
      /\ cache' \in [Nodes -> {NothingCached} \cup [filter : Requests, answer : Messages]]
  BY <1>0, <1>1, <1>5, <1>6, <1>8, AnswersAndCachesIs DEF SignAudit, Requests
<1>10. /\ limits' \in [Nodes -> [outgoing : Limits, incoming : Limits]]
       /\ saved' \in [Nodes -> AuditTerms] /\ state' \in [Nodes -> States]
  BY <1>0, <1>2, TargetIs DEF SignAudit, Typed, States
<1>11. Typed'
  BY <1>0, <1>4, <1>9, <1>10 DEF Typed
<1> QED BY <1>0, <1>3, <1>4, <1>9, <1>11 DEF Step

LEMMA AuditNotSignedStep ==
    ASSUME AuditInv, NEW n \in Nodes, NEW m \in Arrived(n, "Audit"),
           RefuseAudit(n, m) \/ LeaveAudit(n, m)
    PROVE  Step
<1>0. /\ Typed /\ m.tx \in Changes /\ Owner[m.tx] # n
      /\ TasksFit' /\ task' \in [Nodes -> [Transactions -> Stages]]
      /\ UNCHANGED <<up, outbox, begun, crashes>>
  BY AuditTakenIs DEF RefuseAudit, LeaveAudit
<1>1. UNCHANGED <<state, saved, form, cache>>
  BY DEF RefuseAudit, LeaveAudit
<1>2. PICK refusal : refusal = Message("AuditConfirmation", m.tx, "Error", NoTerms)
  OBVIOUS
<1>3. refusal \in Messages /\ New(n, refusal)
  BY <1>0, <1>1, <1>2, RefusalIs
<1>4. SentStep /\ link' \in [Nodes -> SUBSET Messages]
  <2>1. CASE Exchanges(n, m, {refusal})
    <3>1. /\ {refusal} \in SUBSET Messages /\ \A x \in {refusal} : MaySend(n, x)
          /\ \A k \in Nodes : \A x \in outbox'[k] : x \in outbox[k]
      BY <1>0, <1>3 DEF MaySend
    <3> QED BY <1>0, <2>1, <3>1, SentIs
  <2>2. CASE Exchanges(n, m, {})
    BY <1>0, <2>2, NothingSent
  <2> QED BY <1>2, <2>1, <2>2 DEF RefuseAudit, LeaveAudit
<1>5. limits' \in [Nodes -> [outgoing : Limits, incoming : Limits]]
  <2>1. UNCHANGED limits \/ limits' = [limits EXCEPT ![n] = TargetLimits(n, m)]
    BY DEF RefuseAudit, LeaveAudit
  <2>2. TargetLimits(n, m) \in [outgoing : Limits, incoming : Limits]
    BY TargetIs
  <2>3. limits \in [Nodes -> [outgoing : Limits, incoming : Limits]]
    BY <1>0 DEF Typed
  <2> QED BY <2>1, <2>2, <2>3
<1>6. Typed'
  BY <1>0, <1>1, <1>4, <1>5 DEF Typed
<1> QED BY <1>0, <1>1, <1>4, <1>6 DEF Step, SavedStep, FormStep, CacheStep

-----------------------------------------------------------------------------
(* Conflict resolving. *)

LEMMA ResolveStep ==
    ASSUME AuditInv, NEW n \in Nodes, NEW r \in Resolvers, Resolve(n, r)
    PROVE  Step
<1>0. /\ Typed /\ r \in Transactions /\ saved[n] \in AuditTerms
      /\ UNCHANGED <<up, state, saved, form, cache, begun, crashes>>
  BY ConstantTypes DEF AuditInv, Resolve, Typed
<1>1. TasksFit' /\ task' \in [Nodes -> [Transactions -> Stages]]
  <2>1. PICK stage \in {"resolverResponse", "none"} : task' = [task EXCEPT ![n][r] = stage]
    BY DEF Resolve, Ends
  <2> QED BY <1>0, <2>1 DEF TasksFit, AuditInv, Typed, Stages, OwnStages
<1>2. CASE state[n] = "ConflictResolving"
  <2>1. PICK m : m = Request("ConflictResolver", r, saved[n])
    OBVIOUS
  <2>2. m \in Messages /\ m.type = "ConflictResolver" /\ m.tx = r /\ m.terms = saved[n]
    BY <1>0, <2>1, MirrorTypes DEF Request, Message, Messages, Requests
  <2>3. New(n, m)
    <3>1. Backed(n, m.terms)
      BY <1>0, <2>2 DEF Backed, AuditTerms
    <3>2. Backed(n, m.terms)'
      BY <1>0, <3>1 DEF Backed
    <3> QED BY <2>2, <3>2 DEF New, Fits
  <2>4. outbox' = [outbox EXCEPT ![n] = Posted(n, m)] /\ Sends(n, {m})
        /\ limits' = [limits EXCEPT ![n] = LimitsOf(saved[n])]
    BY <1>2, <2>1 DEF Resolve
  <2>5. /\ outbox' \in [Nodes -> SUBSET {x \in Messages : x.type \in Requests}]
        /\ \A k \in Nodes : \A x \in outbox'[k] : x \in outbox[k] \/ (k = n /\ x \in {m})
    BY <1>0, <2>2, <2>4, PostedIs DEF Requests
  <2>6. SentStep /\ link' \in [Nodes -> SUBSET Messages]
    BY <1>0, <2>2, <2>3, <2>4, <2>5, SentIs DEF MaySend
  <2>7. limits' \in [Nodes -> [outgoing : Limits, incoming : Limits]]
    BY <1>0, <2>4, MirrorTypes DEF Typed
  <2>8. Typed'
    BY <1>0, <1>1, <2>5, <2>6, <2>7 DEF Typed
  <2> QED BY <1>0, <1>1, <2>6, <2>8 DEF Step, SavedStep, FormStep, CacheStep
<1>3. CASE state[n] # "ConflictResolving"
  <2>1. UNCHANGED <<limits, outbox, link>>
    BY <1>3 DEF Resolve
  <2>2. SentStep
    BY <2>1 DEF SentStep
  <2>3. Typed'
    BY <1>0, <1>1, <2>1 DEF Typed
  <2> QED BY <1>0, <1>1, <2>2, <2>3 DEF Step, SavedStep, FormStep, CacheStep
<1> QED BY <1>2, <1>3

LEMMA AnswersIs ==
    ASSUME AuditInv, NEW n \in Nodes, NEW m \in Arrived(n, "ConflictResolver"),
           NEW answer \in {"OK", "Reject"}, Answers(n, m, answer)
    PROVE  /\ SentStep /\ link' \in [Nodes -> SUBSET Messages]
           /\ UNCHANGED <<up, form, outbox, cache, crashes>>
<1>0. Typed /\ m.tx \in Resolvers /\ m.tx \in Transactions
  BY ArrivedIs, ConstantTypes DEF AuditInv
<1>1. PICK x : x = Message("ResolverConfirmation", m.tx, answer, NoTerms)
  OBVIOUS
<1>2. x \in Messages /\ x.type = "ResolverConfirmation" /\ x.tx = m.tx
  BY <1>0, <1>1, MirrorTypes DEF Message, Messages
<1>3. New(n, x)
  BY <1>0, <1>2 DEF New, Fits
<1> QED BY <1>0, <1>1, <1>2, <1>3, SentIs DEF MaySend, Answers

LEMMA AcceptTheirsStep ==
    ASSUME AuditInv, NEW n \in Nodes, NEW m \in Arrived(n, "ConflictResolver"), AcceptTheirs(n, m)
    PROVE  Step
<1>0. /\ Typed /\ SentStep /\ link' \in [Nodes -> SUBSET Messages]
      /\ UNCHANGED <<up, form, outbox, cache, crashes, task, begun>>
  BY AnswersIs DEF AcceptTheirs, AuditInv
<1>1. Backed(Peer(n), m.terms)
  BY ArrivedIs DEF Fits
<1>2. PICK terms : terms = Mirror(m.terms)
  OBVIOUS
<1>3. terms \in AuditTerms /\ Mirror(terms) = m.terms /\ terms.number = m.terms.number
  BY <1>1, <1>2, MirrorTypes DEF Backed
<1>4. saved' = [saved EXCEPT ![n] = terms]
  BY <1>2 DEF AcceptTheirs
<1>5. SavedStep
  <2>1. CASE saved[n].number < m.terms.number
    BY <1>1, <1>3, <1>4, <2>1 DEF SavedStep, Copies
  <2>2. CASE saved[n] = Mirror(m.terms)
    BY <1>0, <1>2, <1>4, <2>2 DEF SavedStep, Typed
  <2> QED BY <2>1, <2>2 DEF AcceptTheirs, Acceptable
<1>6. /\ limits' \in [Nodes -> [outgoing : Limits, incoming : Limits]]
      /\ saved' \in [Nodes -> AuditTerms] /\ state' \in [Nodes -> States]
  BY <1>0, <1>2, <1>3, <1>4, MirrorTypes DEF AcceptTheirs, Typed, States
<1>7. Typed'
  BY <1>0, <1>6 DEF Typed
<1>8. TasksFit'
  BY <1>0 DEF AuditInv, TasksFit
<1> QED BY <1>0, <1>5, <1>7, <1>8 DEF Step, FormStep, CacheStep

LEMMA RejectTheirsStep ==
    ASSUME AuditInv, NEW n \in Nodes, NEW m \in Arrived(n, "ConflictResolver"), RejectTheirs(n, m)
    PROVE  Step
<1>0. /\ Typed /\ SentStep /\ link' \in [Nodes -> SUBSET Messages]
      /\ UNCHANGED <<up, form, outbox, cache, crashes, saved>>
  BY AnswersIs DEF RejectTheirs, AuditInv
<1>1. TasksFit' /\ task' \in [Nodes -> [Transactions -> Stages]] /\ begun' \subseteq Transactions
  <2>1. CASE UNCHANGED <<task, begun>>
    BY <1>0, <2>1 DEF AuditInv, TasksFit, Typed
  <2>2. CASE Launches(n, task)
    BY <1>0, <2>2, LaunchesIs DEF Typed
  <2> QED BY <2>1, <2>2 DEF RejectTheirs
<1>2. /\ limits' \in [Nodes -> [outgoing : Limits, incoming : Limits]] /\ state' \in [Nodes -> States]
  BY <1>0, MirrorTypes DEF RejectTheirs, Typed, States
<1>3. Typed'
  BY <1>0, <1>1, <1>2 DEF Typed
<1> QED BY <1>0, <1>1, <1>3 DEF Step, SavedStep, FormStep, CacheStep

LEMMA ResolvedStep ==
    ASSUME AuditInv, NEW n \in Nodes, NEW m \in Arrived(n, "ResolverConfirmation"), Resolved(n, m)
    PROVE  Step
<1>0. /\ Typed /\ m.tx \in Transactions /\ UNCHANGED <<up, limits, saved, form, cache, begun, crashes>>
  BY ArrivedIs, ConstantTypes DEF AuditInv, Resolved
<1>1. /\ outbox' \in [Nodes -> SUBSET {x \in Messages : x.type \in Requests}]
      /\ \A k \in Nodes : outbox'[k] \subseteq outbox[k]
  BY <1>0, UnpostedIs DEF Resolved
<1>2. SentStep /\ link' \in [Nodes -> SUBSET Messages]
  BY <1>0, <1>1, NothingSent DEF Resolved
<1>3. TasksFit' /\ task' \in [Nodes -> [Transactions -> Stages]]
  BY <1>0 DEF Resolved, Ends, TasksFit, AuditInv, Typed, Stages, OwnStages
<1>4. state' \in [Nodes -> States]
  BY <1>0 DEF Resolved, Typed, States
<1>5. Typed'
  BY <1>0, <1>1, <1>2, <1>3, <1>4 DEF Typed
<1> QED BY <1>0, <1>2, <1>3, <1>5 DEF Step, SavedStep, FormStep, CacheStep

-----------------------------------------------------------------------------
(* Timeouts, the network, crashes. *)

LEMMA QuietStep ==
    ASSUME AuditInv, NEW n \in Nodes,
           \/ \E t \in Transactions : Timeout(n, t)
           \/ \E t \in Changes : AuditNotPending(n, t)
           \/ \E m : DropAnswer(n, m)
           \/ Lose(n)
    PROVE  Step
<1>0. Typed /\ UNCHANGED <<up, state, limits, saved, form, outbox, cache, begun, crashes>>
  BY DEF AuditInv, Timeout, AuditNotPending, DropAnswer, Lose
<1>1. SentStep /\ link' \in [Nodes -> SUBSET Messages]
  <2>1. CASE Lose(n)
    <3>1. PICK m : link' = [link EXCEPT ![n] = link[n] \ {m}]
      BY <2>1 DEF Lose
    <3>2. link' \in [Nodes -> SUBSET Messages] /\ \A k \in Nodes : link'[k] \subseteq link[k]
      BY <1>0, <3>1 DEF Typed
    <3> QED BY <1>0, <3>2 DEF SentStep
  <2>2. CASE UNCHANGED link \/ \E m : Exchanges(n, m, {})
    <3>1. \A k \in Nodes : outbox'[k] \subseteq outbox[k]
      BY <1>0
    <3> QED BY <1>0, <2>2, <3>1, NothingSent
  <2> QED BY <2>1, <2>2 DEF Timeout, AuditNotPending, DropAnswer
<1>2. TasksFit' /\ task' \in [Nodes -> [Transactions -> Stages]]
  <2>1. UNCHANGED task \/ \E t \in Transactions : Ends(n, t)
    BY ConstantTypes DEF Timeout, AuditNotPending, DropAnswer, Lose
  <2>2. CASE UNCHANGED task
    BY <1>0, <2>2 DEF TasksFit, AuditInv, Typed
  <2>3. ASSUME NEW t \in Transactions, Ends(n, t)
        PROVE  TasksFit' /\ task' \in [Nodes -> [Transactions -> Stages]]
    BY <1>0, <2>3 DEF Ends, TasksFit, AuditInv, Typed, Stages, OwnStages
  <2> QED BY <2>1, <2>2, <2>3
<1>3. Typed'
  BY <1>0, <1>1, <1>2 DEF Typed
<1> QED BY <1>0, <1>1, <1>2, <1>3 DEF Step, SavedStep, FormStep, CacheStep

LEMMA ResendStep ==
    ASSUME AuditInv, NEW n \in Nodes, Resend(n)
    PROVE  Step
<1>0. Typed /\ UNCHANGED <<up, state, limits, saved, form, task, outbox, cache, begun, crashes>>
  BY DEF AuditInv, Resend
<1>1. PICK m \in outbox[n] : Sends(n, {m})
  BY DEF Resend
<1>2. {m} \in SUBSET Messages
  BY <1>0, <1>1 DEF Typed
<1>3. /\ link' \in [Nodes -> SUBSET Messages]
      /\ \A k \in Nodes : \A x \in link'[k] : x \in link[k] \/ (k = n /\ x \in {m})
  BY <1>0, <1>1, <1>2, LinkIs
<1>4. SentStep
  BY <1>0, <1>1, <1>3 DEF SentStep
<1>5. Typed' /\ TasksFit'
  BY <1>0, <1>3 DEF Typed, TasksFit, AuditInv
<1> QED BY <1>0, <1>4, <1>5 DEF Step, SavedStep, FormStep, CacheStep

LEMMA CrashStep ==
    ASSUME AuditInv, NEW n \in Nodes, Crash(n)
    PROVE  Step
<1>0. Typed /\ Falls(n) /\ UNCHANGED <<state, limits, saved, form, outbox, link, begun>>
  BY DEF AuditInv, Crash
<1>1. crashes' \in [Nodes -> Nat]
  BY <1>0 DEF Crash, Typed
<1>2. Typed'
  BY <1>0, <1>1, FallsKeeps DEF Typed
<1> QED BY <1>0, <1>2, FallsKeeps DEF Step, SavedStep, FormStep, SentStep

\* A restart makes a limit again that is in the database.
LEMMA FormAmountsType ==
    ASSUME NEW n, NEW side, NEW states
    PROVE  FormAmounts(n, side, states) \subseteq Limits
BY ConstantTypes DEF FormAmounts

LEMMA RestartStep ==
    ASSUME AuditInv, NEW n \in Nodes, Restart(n)
    PROVE  Step
<1>0. Typed /\ UNCHANGED <<state, saved, form, task, outbox, cache, link, begun, crashes>>
  BY DEF AuditInv, Restart
<1>1. PICK out \in FormAmounts(n, "outgoing", {"Modify", "AuditPending"}) \cup {saved[n].outgoing},
           in \in FormAmounts(n, "incoming", {"AuditPending"}) \cup {saved[n].incoming} :
              limits' = [limits EXCEPT ![n] = [outgoing |-> out, incoming |-> in]]
  BY DEF Restart
<1>2. out \in Limits /\ in \in Limits
  BY <1>0, FormAmountsType DEF Typed, AuditTerms
<1>3. /\ limits' \in [Nodes -> [outgoing : Limits, incoming : Limits]] /\ up' \in [Nodes -> BOOLEAN]
  BY <1>0, <1>1, <1>2 DEF Restart, Typed
<1>4. Typed' /\ TasksFit'
  BY <1>0, <1>3 DEF Typed, TasksFit, AuditInv
<1> QED BY <1>0, <1>4 DEF Step, SavedStep, FormStep, SentStep, CacheStep

LEMMA StutterStep ==
    ASSUME AuditInv, UNCHANGED vars
    PROVE  Step
<1>1. Typed' /\ TasksFit'
  BY DEF vars, AuditInv, Typed, TasksFit
<1> QED BY <1>1 DEF vars, Step, SavedStep, FormStep, SentStep, CacheStep

-----------------------------------------------------------------------------
(* Every step is such a step. *)

LEMMA NextIsStep ==
    ASSUME AuditInv, [Next]_vars
    PROVE  Step
<1>1. CASE UNCHANGED vars
  BY <1>1, StutterStep
<1>2. ASSUME NEW n \in Nodes, Answer(n) PROVE Step
  <2>1. ASSUME NEW m \in Arrived(n, "SetIncoming"),
               AnswerFromCache(n, m) \/ SetIncoming(n, m) \/ RefuseIncoming(n, m)
        PROVE  Step
    BY <2>1, AnswerFromCacheStep, SetIncomingStep, RefuseIncomingStep DEF Requests
  <2>2. ASSUME NEW m \in Arrived(n, "Audit"),
               AnswerFromCache(n, m) \/ SignAudit(n, m) \/ RefuseAudit(n, m) \/ LeaveAudit(n, m)
        PROVE  Step
    BY <2>2, AnswerFromCacheStep, SignAuditStep, AuditNotSignedStep DEF Requests
  <2>3. ASSUME NEW m \in Arrived(n, "ConflictResolver"), AcceptTheirs(n, m) \/ RejectTheirs(n, m)
        PROVE  Step
    BY <2>3, AcceptTheirsStep, RejectTheirsStep
  <2> QED BY <1>2, <2>1, <2>2, <2>3 DEF Answer
<1>3. ASSUME NEW n \in Nodes, Proceed(n) PROVE Step
  <2>1. ASSUME NEW m \in Arrived(n, "Confirmation") \cup Arrived(n, "AuditConfirmation"),
               \/ ChangeAccepted(n, m) \/ ChangeRefused(n, m)
               \/ AuditAccepted(n, m) \/ AuditWronglySigned(n, m) \/ AuditRefused(n, m)
               \/ ConfirmationMisread(n, m) \/ DropAnswer(n, m)
        PROVE  Step
    BY <2>1, ChangeAnsweredStep, AuditAcceptedStep, AuditWronglySignedStep, AuditRefusedStep,
       ConfirmationMisreadStep, QuietStep
  <2>2. ASSUME NEW m \in Arrived(n, "ResolverConfirmation"), Resolved(n, m) \/ DropAnswer(n, m)
        PROVE  Step
    BY <2>2, ResolvedStep, QuietStep
  <2> QED BY <1>3, <2>1, <2>2 DEF Proceed
<1>4. ASSUME NEW n \in Nodes, Awake(n) PROVE Step
  BY <1>4, InitAuditStep, QuietStep, ResolveStep DEF Awake
<1>5. ASSUME NEW n \in Nodes,
             \/ \E t \in Changes : SetOutgoing(n, t)
             \/ \E t \in Transactions : Timeout(n, t)
             \/ Resend(n) \/ Lose(n) \/ Crash(n) \/ Restart(n)
      PROVE  Step
  BY <1>5, SetOutgoingStep, QuietStep, ResendStep, CrashStep, RestartStep
<1> QED BY <1>1, <1>2, <1>3, <1>4, <1>5 DEF Next

LEMMA InitFits == Init => AuditInv /\ Levels
<1> SUFFICES ASSUME Init PROVE AuditInv /\ Levels
  OBVIOUS
<1>1. FirstTerms \in AuditTerms /\ FirstTerms.number = 1 /\ Mirror(FirstTerms) = FirstTerms
  BY ConstantTypes DEF FirstTerms, AuditTerms, Mirror
<1>2. /\ \A n \in Nodes : saved[n] = FirstTerms /\ outbox[n] = {} /\ link[n] = {} /\ cache[n] = NothingCached
      /\ \A n \in Nodes : \A t \in Changes : form[n][t] = 0
      /\ \A n \in Nodes : \A t \in Transactions : task[n][t] = "none"
  BY DEF Init
<1>3. Typed
  <2>1. limits \in [Nodes -> [outgoing : Limits, incoming : Limits]]
    BY <1>1, MirrorTypes DEF Init
  <2>2. saved \in [Nodes -> AuditTerms]
    BY <1>1 DEF Init
  <2> QED BY <2>1, <2>2 DEF Init, Typed, States, Stages
<1>4. TasksFit /\ FormsFit /\ SentFit /\ CacheFits
  BY <1>1, <1>2 DEF TasksFit, FormsFit, SentFit, CacheFits, OwnStages, HasCached
<1>5. Levels
  <2>1. ASSUME NEW n \in Nodes PROVE saved[n] = FirstTerms /\ saved[Peer(n)] = FirstTerms
    BY <1>2, PeerIs
  <2> QED BY <1>1, <2>1 DEF Levels
<1> QED BY <1>3, <1>4, <1>5 DEF AuditInv

-----------------------------------------------------------------------------
(***************************************************************************)
(* Theorems.                                                               *)
(***************************************************************************)

LEMMA Invariance == Spec => []AuditInv
<1>1. Init => AuditInv
  BY InitFits
<1>2. AuditInv /\ [Next]_vars => AuditInv'
  BY NextIsStep, StepKeeps
<1> QED BY <1>1, <1>2, PTL DEF Spec

\* Every variable keeps its type, whatever the two nodes do and the network and
\* the crashes do to them (TrustLineAudit, all handlers).
THEOREM TypeCorrect == Spec => []TypeOK
<1>1. AuditInv => TypeOK
  <2>1. [outgoing : Limits, incoming : Limits] \subseteq [outgoing : Nat, incoming : Nat]
    BY ConstantTypes
  <2>2. AuditTerms \subseteq [number : Nat, outgoing : Nat, incoming : Nat]
    BY MirrorTypes
  <2> QED BY <2>1, <2>2 DEF AuditInv, Typed, TypeOK
<1> QED BY <1>1, Invariance, PTL

LEMMA ChainHolds == Spec /\ []NoCrossing => []Levels
<1>1. Init => Levels
  BY InitFits
<1>2. AuditInv /\ Levels /\ NoCrossing /\ [Next]_vars => Levels'
  BY NextIsStep, StepLevels
<1> QED BY <1>1, <1>2, Invariance, PTL DEF Spec

\* Two nodes that have an audit of one number have signed the same limits, unless
\* one of them signed an audit with a number under which it asked for one itself
\* (saveAudit, acceptAudit).
THEOREM UncrossedMatch == Spec /\ []NoCrossing => []AuditsMatch
<1>1. Levels => AuditsMatch
  <2>1. ASSUME Levels, NEW n \in Nodes, NEW k \in Nodes, n # k, saved[n].number = saved[k].number
        PROVE  saved[n] = Mirror(saved[k])
    BY <2>1, PeerIs DEF Levels
  <2> QED BY <2>1 DEF AuditsMatch
<1> QED BY <1>1, ChainHolds, PTL

LEMMA StepIsChain ==
    ASSUME AuditInv, Levels, NoCrossing, Step
    PROVE  [Chain!Next]_saved
<1>0. /\ saved \in [Nodes -> AuditTerms]
      /\ \A n \in Nodes : saved[n].number \in Nat
  BY DEF AuditInv, Typed, AuditTerms
<1>1. ASSUME NEW n \in Nodes, NEW terms \in AuditTerms, saved' = [saved EXCEPT ![n] = terms],
             saved[n].number < terms.number, Copies(n, terms)
      PROVE  Chain!Follow(n)
  <2>1. /\ saved[Peer(n)].number = saved[n].number + 1 /\ terms = Mirror(saved[Peer(n)])
    BY <1>1, CopyFollows
  <2>2. Chain!Mirror(saved[Peer(n)]) = Mirror(saved[Peer(n)])
    BY DEF Chain!Mirror, Mirror
  <2> QED BY <1>1, <2>1, <2>2, PeerIs DEF Chain!Follow
<1>2. ASSUME NEW n \in Nodes, NEW terms \in AuditTerms, saved' = [saved EXCEPT ![n] = terms],
             NEW m, Signs(n, m), terms = Mirror(m.terms)
      PROVE  Chain!Lead(n)
  <2>1. /\ saved[Peer(n)].number = saved[n].number /\ m.terms.number = saved[n].number + 1
    BY <1>2, SigningLeads
  <2>2. terms.number = saved[n].number + 1
    BY <1>2, <2>1 DEF Mirror
  <2>3. terms \in Chain!TermsNumbered(saved[n].number + 1)
    BY <1>2, <2>2 DEF AuditTerms, Chain!TermsNumbered
  <2>4. \A k \in Nodes : saved[k].number = saved[n].number
    BY <2>1, PeerIs
  <2> QED BY <1>2, <2>3, <2>4 DEF Chain!Lead
<1> QED BY <1>1, <1>2 DEF Step, SavedStep, Chain!Next

LEMMA InitIsChain == Init => Chain!Init
<1> SUFFICES ASSUME Init PROVE Chain!Init
  OBVIOUS
<1>1. PICK n \in Nodes : TRUE
  BY AuditAssumption
<1>2. FirstTerms \in Chain!TermsNumbered(1) /\ Chain!Mirror(FirstTerms) = FirstTerms
  BY ConstantTypes DEF FirstTerms, Chain!TermsNumbered, Chain!Mirror
<1>3. saved = [m \in Nodes |-> IF m = n THEN FirstTerms ELSE Chain!Mirror(FirstTerms)]
  BY <1>2 DEF Init
<1> QED BY <1>1, <1>2, <1>3 DEF Chain!Init

\* Without such a crossing every step of the two nodes is a step of AuditChain or
\* leaves both databases alone: one goes ahead by one audit, and only from a level,
\* the other one follows to the same terms.
THEOREM UncrossedIsChain == Spec /\ []NoCrossing => ImplementsChain
<1>1. AuditInv /\ Levels /\ NoCrossing /\ [Next]_vars => [Chain!Next]_saved
  BY NextIsStep, StepIsChain
<1> QED BY <1>1, InitIsChain, Invariance, ChainHolds, PTL DEF Spec, ImplementsChain, Chain!Spec

\* One of the two nodes gives all the commands.
OneSided == \E n \in Nodes : \A t \in Changes : Owner[t] = n

LEMMA OneSidedNeverCrosses == ASSUME OneSided, AuditInv PROVE NoCrossing
<1> SUFFICES ASSUME NEW n \in Nodes, NEW m, Signs(n, m) PROVE ~Asks(n, m.terms.number)
  BY DEF NoCrossing
<1>1. m.tx \in Changes /\ Owner[m.tx] # n
  BY ArrivedIs DEF Signs
<1>2. \A t \in Changes : Owner[t] # n
  BY <1>1 DEF OneSided
<1>3. \A x \in outbox[n] \cup link[n] : x.type # "Audit"
  BY <1>2 DEF AuditInv, SentFit, Fits
<1> QED BY <1>2, <1>3 DEF Asks

\* When one of the nodes gives all the commands, the nodes never hold different
\* audits of one number, over any losses, late and repeated messages, timeouts,
\* crashes of both and conflict resolvers of both.
THEOREM OneSidedMatch == ASSUME OneSided PROVE Spec => []AuditsMatch
<1>1. AuditInv => NoCrossing
  BY OneSidedNeverCrosses
<1> QED BY <1>1, Invariance, UncrossedMatch, PTL

\* Under the same hypothesis the protocol implements AuditChain.
THEOREM OneSidedIsChain == ASSUME OneSided PROVE Spec => ImplementsChain
<1>1. AuditInv => NoCrossing
  BY OneSidedNeverCrosses
<1> QED BY <1>1, Invariance, UncrossedIsChain, PTL

-----------------------------------------------------------------------------
(***************************************************************************)
(* One node, p, gives all the commands, and its requests come in the order *)
(* in which they are sent.  The other one, q, does not crash, and so keeps *)
(* its cached answer; what it sends may come late, in any order, again or  *)
(* not at all.  Both may be impatient, and p may crash.                    *)
(***************************************************************************)

OrderedRequests(p, q) ==
    /\ p # q /\ Nodes = {p, q}
    /\ \A t \in Changes : Owner[t] = p
    /\ p \notin Delaying
    /\ MaxCrashes[q] = 0

\* Nothing is about to change the line of n.
NoChange(n) ==
    /\ \A t \in Changes : form[n][t] = 0
    /\ \A t \in Transactions : task[n][t] = "none"

Rests(n) ==
    /\ state[n] = "Active" /\ NoChange(n)
    /\ up[n] => limits[n] = LimitsOf(saved[n])

\* Change t, and no other one, is under way at n.
OnlyChange(n, t) ==
    /\ form[n][t] = saved[n].number + 1
    /\ \A x \in Changes \ {t} : form[n][x] = 0
    /\ \A x \in Transactions \ {t} : task[n][x] = "none"

Changing(p, t) ==
    /\ OnlyChange(p, t)
    /\ up[p] => limits[p] = [outgoing |-> Amount[t], incoming |-> saved[p].incoming]

NewTerms(n, t) ==
    [number |-> saved[n].number + 1, outgoing |-> Amount[t], incoming |-> saved[n].incoming]

IncomingRequest(t) == Request("SetIncoming", t, NoTerms)
AuditRequest(n, t) == Request("Audit", t, NewTerms(n, t))

\* The contractor has not heard of t, or waits for the audit of it, or has signed.
Unaware(q, t) ==
    /\ Rests(q)
    /\ HasCached(q) => cache[q].answer.tx # t
    /\ \A m \in link[q] : m.tx # t

Holds(q, t) ==
    /\ state[q] = "AuditPending" /\ OnlyChange(q, t) /\ task[q][t] \in {"audit", "none"}
    /\ limits[q] = [outgoing |-> saved[q].outgoing, incoming |-> Amount[t]]
    /\ cache[q] = [filter |-> "SetIncoming", answer |-> Message("Confirmation", t, "OK", NoTerms)]
    /\ \A m \in link[q] : m.tx = t => m.type = "Confirmation"

HasSigned(p, q, t) ==
    /\ Rests(q)
    /\ saved[q] = Mirror(NewTerms(p, t))
    /\ cache[q] = [filter |-> "Audit", answer |-> Message("AuditConfirmation", t, "OK", saved[q])]
    /\ \A m \in link[q] : m.tx = t /\ m.type = "AuditConfirmation" => m.terms = saved[q]

\* Where a change is, and what of it is on the way.
Resting(p, q) ==
    /\ Rests(p) /\ Rests(q) /\ saved[q] = Mirror(saved[p])
    /\ outbox[p] = {}
    /\ \A m \in link[p] : m.type = "Audit" /\ Cached(q, m)

Asking(p, q, t) ==
    /\ state[p] = "Modify" /\ Changing(p, t) /\ task[p][t] \in {"confirmation", "none"}
    /\ outbox[p] = {IncomingRequest(t)} /\ link[p] \subseteq {IncomingRequest(t)}
    /\ saved[q] = Mirror(saved[p])
    /\ Unaware(q, t) \/ Holds(q, t)

\* The owner may have given up the change, when it took something else for the
\* answer to the audit; the contractor may sign it all the same.
Auditing(p, q, t) ==
    /\ state[p] = "AuditPending"
    /\ \/ Changing(p, t) /\ task[p][t] \in {"auditing", "auditResponse", "none"}
       \/ NoChange(p)
    /\ outbox[p] \subseteq {AuditRequest(p, t)}
    /\ \/ /\ saved[q] = Mirror(saved[p]) /\ Holds(q, t)
          /\ link[p] \subseteq {IncomingRequest(t)} \/ link[p] \subseteq {AuditRequest(p, t)}
       \/ HasSigned(p, q, t) /\ link[p] \subseteq {AuditRequest(p, t)}

\* The contractor asks for nothing and refuses nothing.
Obliging(q) ==
    /\ up[q] /\ outbox[q] = {}
    /\ \A m \in link[q] :
          m.type \in {"Confirmation", "AuditConfirmation"} /\ m.answer = "OK" /\ m.tx \in begun
    /\ HasCached(q) => cache[q].answer.answer = "OK" /\ cache[q].answer.tx \in begun

Orderly(p, q) ==
    /\ Obliging(q)
    /\ \/ Resting(p, q)
       \/ \E t \in Changes \cap begun : Asking(p, q, t) \/ Auditing(p, q, t)

\* The two nodes of the line.
LEMMA BothAre ==
    ASSUME NEW p, NEW q, OrderedRequests(p, q)
    PROVE  /\ p \in Nodes /\ q \in Nodes /\ p # q /\ Peer(p) = q /\ Peer(q) = p
           /\ \A n \in Nodes : n = p \/ n = q
           /\ \A t \in Changes : Owner[t] = p
BY PeerIs DEF OrderedRequests

SameNode(n) ==
    /\ up'[n] = up[n] /\ state'[n] = state[n] /\ limits'[n] = limits[n] /\ saved'[n] = saved[n]
    /\ form'[n] = form[n] /\ task'[n] = task[n] /\ outbox'[n] = outbox[n] /\ cache'[n] = cache[n]

\* What comes from q is an answer of a change of p.
LEMMA AnswersAre ==
    ASSUME NEW p, NEW q, OrderedRequests(p, q), AuditInv, Orderly(p, q), NEW m \in link[q]
    PROVE  /\ m.tx \in Changes \cap begun /\ m.tx \in Transactions
           /\ m.type \in {"Confirmation", "AuditConfirmation"} /\ m.answer = "OK"
           /\ m.type = "Confirmation" => m.terms = NoTerms
<1>1. Fits(q, m)
  BY BothAre DEF AuditInv, SentFit
<1>2. m.type \in {"Confirmation", "AuditConfirmation"} /\ m.answer = "OK" /\ m.tx \in begun
  BY DEF Orderly, Obliging
<1> QED BY <1>1, <1>2, ConstantTypes DEF Fits

\* What comes from p is a request of the change that it is about.
LEMMA RequestsAre ==
    ASSUME NEW p, NEW q, OrderedRequests(p, q), AuditInv, Orderly(p, q), NEW m \in link[p]
    PROVE  m.type \in {"SetIncoming", "Audit"} /\ m.tx \in Changes
<1>1. Fits(p, m)
  BY BothAre DEF AuditInv, SentFit
<1>2. m.type \in {"SetIncoming", "Audit"}
  BY DEF Orderly, Resting, Asking, Auditing, IncomingRequest, AuditRequest, Request, Message
<1> QED BY <1>1, <1>2 DEF Fits

-----------------------------------------------------------------------------
(* Steps that leave one of the two, or both, as they are. *)

LEMMA ContractorStays ==
    ASSUME NEW q, SameNode(q), link'[q] \subseteq link[q], begun \subseteq begun'
    PROVE  /\ Rests(q) => Rests(q)'
           /\ \A t : Unaware(q, t) => Unaware(q, t)'
           /\ \A t : Holds(q, t) => Holds(q, t)'
           /\ \A m : Cached(q, m) => Cached(q, m)'
           /\ Obliging(q) => Obliging(q)'
           /\ \A p, t : HasSigned(p, q, t) /\ saved'[p] = saved[p] => HasSigned(p, q, t)'
<1>1. Rests(q) => Rests(q)'
  BY DEF SameNode, Rests, NoChange
<1>2. ASSUME NEW t, Unaware(q, t) PROVE Unaware(q, t)'
  BY <1>1, <1>2 DEF Unaware, SameNode, HasCached
<1>3. ASSUME NEW t, Holds(q, t) PROVE Holds(q, t)'
  BY <1>3 DEF Holds, SameNode, OnlyChange
<1>4. ASSUME NEW m, Cached(q, m) PROVE Cached(q, m)'
  BY <1>4 DEF Cached, SameNode
<1>5. Obliging(q) => Obliging(q)'
  BY DEF Obliging, SameNode, HasCached
<1>6. ASSUME NEW p, NEW t, HasSigned(p, q, t), saved'[p] = saved[p] PROVE HasSigned(p, q, t)'
  BY <1>1, <1>6 DEF HasSigned, SameNode, NewTerms
<1> QED BY <1>1, <1>2, <1>3, <1>4, <1>5, <1>6

\* What q has kept is sent again, or not; a request comes, is lost or is sent again.
LEMMA LinkKeeps ==
    ASSUME NEW p, NEW q, OrderedRequests(p, q), AuditInv, Orderly(p, q),
           SameNode(p), SameNode(q), UNCHANGED begun,
           link'[p] \subseteq link[p] \/ \E m \in outbox[p] : link'[p] = {m},
           \A m \in link'[q] : m \in link[q] \/ (HasCached(q) /\ m = cache[q].answer)
    PROVE  Orderly(p, q)'
<1>1. HasCached(q) => cache[q].answer.type \in {"Confirmation", "AuditConfirmation"}
  BY BothAre DEF AuditInv, CacheFits
<1>2. Obliging(q)'
  BY <1>1 DEF Orderly, Obliging, SameNode, HasCached
<1>3. (Rests(p) => Rests(p)') /\ (Rests(q) => Rests(q)')
  BY DEF SameNode, Rests, NoChange
<1>4. ASSUME NEW t
      PROVE  /\ Unaware(q, t) => Unaware(q, t)'
             /\ Holds(q, t) => Holds(q, t)'
             /\ HasSigned(p, q, t) => HasSigned(p, q, t)'
             /\ Changing(p, t) => Changing(p, t)'
             /\ AuditRequest(p, t)' = AuditRequest(p, t)
  <2>1. Unaware(q, t) => Unaware(q, t)'
    BY <1>3 DEF Unaware, SameNode, HasCached
  <2>2. Holds(q, t) => Holds(q, t)'
    BY DEF Holds, SameNode, OnlyChange, Message
  <2>3. HasSigned(p, q, t) => HasSigned(p, q, t)'
    BY <1>3 DEF HasSigned, SameNode, NewTerms, Message
  <2>4. Changing(p, t) => Changing(p, t)'
    BY DEF Changing, OnlyChange, SameNode
  <2>5. AuditRequest(p, t)' = AuditRequest(p, t)
    BY DEF AuditRequest, NewTerms, SameNode
  <2> QED BY <2>1, <2>2, <2>3, <2>4, <2>5
<1>5. CASE Resting(p, q)
  <2>1. Resting(p, q)'
    BY <1>3, <1>5 DEF Resting, SameNode, Cached
  <2> QED BY <1>2, <2>1 DEF Orderly
<1>6. ASSUME NEW t \in Changes \cap begun, Asking(p, q, t) PROVE Orderly(p, q)'
  <2>1. Asking(p, q, t)'
    BY <1>4, <1>6 DEF Asking, SameNode
  <2> QED BY <1>2, <2>1 DEF Orderly
<1>7. ASSUME NEW t \in Changes \cap begun, Auditing(p, q, t) PROVE Orderly(p, q)'
  <2>1. Auditing(p, q, t)'
    BY <1>4, <1>7 DEF Auditing, NoChange, SameNode
  <2> QED BY <1>2, <2>1 DEF Orderly
<1> QED BY <1>5, <1>6, <1>7 DEF Orderly

\* n takes m and answers, or sends of its own accord.
LEMMA ExchangesIs ==
    ASSUME NEW p, NEW q, OrderedRequests(p, q), AuditInv, NEW n \in Nodes, NEW m, NEW answers,
           Exchanges(n, m, answers)
    PROVE  /\ link'[Peer(n)] = link[Peer(n)] \ {m}
           /\ answers = {} => link'[n] = link[n]
           /\ link'[n] \subseteq link[n] \cup answers
<1>1. link \in [Nodes -> SUBSET Messages] /\ Peer(n) \in Nodes /\ Peer(n) # n
  BY PeerIs DEF AuditInv, Typed
<1> QED BY <1>1 DEF Exchanges, OnLink

LEMMA OwnerSends ==
    ASSUME NEW p, NEW q, OrderedRequests(p, q), AuditInv, NEW m, Sends(p, {m})
    PROVE  link'[p] = {m} /\ link'[q] = link[q]
<1>1. link \in [Nodes -> SUBSET Messages]
  BY DEF AuditInv, Typed
<1> QED BY <1>1, BothAre DEF Sends, OnLink, OrderedRequests

LEMMA QuietKeeps ==
    ASSUME NEW p, NEW q, OrderedRequests(p, q), AuditInv, Orderly(p, q), NEW n \in Nodes,
           \/ \E m : DropAnswer(n, m)
           \/ \E m \in Arrived(n, "SetIncoming") \cup Arrived(n, "Audit") : AnswerFromCache(n, m)
           \/ Resend(n) \/ Lose(n)
           \/ UNCHANGED vars
    PROVE  Orderly(p, q)'
<1>0. link \in [Nodes -> SUBSET Messages] /\ (n = p \/ n = q)
  BY BothAre DEF AuditInv, Typed
<1>1. SameNode(p) /\ SameNode(q) /\ UNCHANGED begun
  BY DEF SameNode, DropAnswer, AnswerFromCache, Resend, Lose, vars
<1>2. CASE \E m : DropAnswer(n, m)
  <2>1. PICK m : DropAnswer(n, m)
    BY <1>2
  <2>2. link'[p] \subseteq link[p] /\ link'[q] \subseteq link[q]
    BY <1>0, <2>1, ExchangesIs, BothAre DEF DropAnswer
  <2> QED BY <1>1, <2>2, LinkKeeps
<1>3. ASSUME NEW m \in Arrived(n, "SetIncoming") \cup Arrived(n, "Audit"), AnswerFromCache(n, m)
      PROVE  Orderly(p, q)'
  <2>1. n = q
    <3>1. m \in link[Peer(n)] /\ m.type \in {"SetIncoming", "Audit"}
      BY <1>3 DEF Arrived
    <3> QED BY <1>0, <3>1, BothAre, AnswersAre
  <2>2. HasCached(q)
    BY <1>3, <2>1 DEF AnswerFromCache, Cached, HasCached, NothingCached, Arrived
  <2>3. link'[p] \subseteq link[p] /\ link'[q] \subseteq link[q] \cup {cache[q].answer}
    BY <1>3, <2>1, ExchangesIs, BothAre DEF AnswerFromCache
  <2> QED BY <1>1, <2>2, <2>3, LinkKeeps
<1>4. CASE Resend(n)
  <2>1. n = p
    BY <1>0, <1>4 DEF Resend, Orderly, Obliging
  <2>2. PICK m \in outbox[p] : Sends(p, {m})
    BY <1>4, <2>1 DEF Resend
  <2>3. link'[p] = {m} /\ link'[q] = link[q]
    BY <2>2, OwnerSends
  <2> QED BY <1>1, <2>2, <2>3, LinkKeeps
<1>5. CASE Lose(n) \/ UNCHANGED vars
  <2>1. link'[p] \subseteq link[p] /\ link'[q] \subseteq link[q]
    BY <1>0, <1>5, BothAre DEF Lose, vars
  <2> QED BY <1>1, <2>1, LinkKeeps
<1> QED BY <1>2, <1>3, <1>4, <1>5

-----------------------------------------------------------------------------
(* Steps of the owner. *)

LEMMA SetOutgoingKeeps ==
    ASSUME NEW p, NEW q, OrderedRequests(p, q), AuditInv, Orderly(p, q),
           NEW n \in Nodes, NEW t \in Changes, SetOutgoing(n, t)
    PROVE  Orderly(p, q)'
<1>0. /\ n = p /\ p # q /\ p \in Nodes /\ q \in Nodes /\ Typed /\ t \in Transactions
      /\ t \notin begun /\ state[p] = "Active" /\ up[p]
  BY BothAre, ConstantTypes DEF SetOutgoing, AuditInv
<1>1. Resting(p, q)
  BY <1>0 DEF Orderly, Asking, Auditing
<1>2. /\ saved' = saved /\ up' = up /\ cache' = cache /\ begun' = begun \cup {t}
      /\ state' = [state EXCEPT ![p] = "Modify"]
      /\ limits' = [limits EXCEPT ![p].outgoing = Amount[t]]
      /\ form' = [form EXCEPT ![p][t] = saved[p].number + 1]
      /\ task' = [task EXCEPT ![p][t] = "confirmation"]
      /\ outbox' = [outbox EXCEPT ![p] = Posted(p, IncomingRequest(t))]
      /\ Sends(p, {IncomingRequest(t)})
  BY <1>0 DEF SetOutgoing, IncomingRequest, NextNumber
<1>3. link'[p] = {IncomingRequest(t)} /\ link'[q] = link[q]
  BY <1>2, OwnerSends
<1>4. SameNode(q)
  BY <1>0, <1>2 DEF SameNode, Typed
<1>5. Rests(q)' /\ Obliging(q)'
  BY <1>1, <1>2, <1>3, <1>4, ContractorStays DEF Resting, Orderly
<1>6. Unaware(q, t)'
  <2>1. /\ \A m \in link[q] : m.tx # t
        /\ HasCached(q) => cache[q].answer.tx # t
    BY <1>0 DEF Orderly, Obliging
  <2> QED BY <1>2, <1>3, <1>5, <2>1 DEF Unaware, HasCached
<1>7. Changing(p, t)'
  <2>1. limits'[p] = [outgoing |-> Amount[t], incoming |-> saved[p].incoming]
    BY <1>0, <1>1, <1>2 DEF Resting, Rests, LimitsOf, Typed
  <2>2. OnlyChange(p, t)'
    BY <1>0, <1>1, <1>2 DEF Resting, Rests, NoChange, OnlyChange, Typed
  <2> QED BY <1>2, <2>1, <2>2 DEF Changing
<1>8. outbox'[p] = {IncomingRequest(t)}
  BY <1>0, <1>1, <1>2 DEF Resting, Posted, Typed
<1>9. Asking(p, q, t)'
  <2>1. state'[p] = "Modify" /\ task'[p][t] = "confirmation" /\ saved'[q] = Mirror(saved'[p])
    BY <1>0, <1>1, <1>2 DEF Resting, Typed
  <2> QED BY <1>3, <1>6, <1>7, <1>8, <2>1 DEF Asking
<1>10. t \in Changes \cap begun'
  BY <1>2
<1> QED BY <1>5, <1>9, <1>10 DEF Orderly

\* An answer finds the change that is under way, or none.
LEMMA ChangeIsThis ==
    ASSUME NEW p, NEW q, OrderedRequests(p, q), AuditInv, Orderly(p, q), NEW x \in Changes,
           task[p][x] # "none" \/ form[p][x] # 0
    PROVE  /\ x \in Changes \cap begun /\ x \in Transactions
           /\ Asking(p, q, x) \/ (Auditing(p, q, x) /\ Changing(p, x))
<1>0. x \in Transactions
  BY ConstantTypes
<1>1. ~Resting(p, q)
  BY <1>0 DEF Resting, Rests, NoChange
<1>2. ASSUME NEW t \in Changes \cap begun, Asking(p, q, t) PROVE x = t
  BY <1>0, <1>2 DEF Asking, Changing, OnlyChange
<1>3. ASSUME NEW t \in Changes \cap begun, Auditing(p, q, t) PROVE x = t /\ Changing(p, t)
  BY <1>0, <1>3 DEF Auditing, NoChange, Changing, OnlyChange
<1> QED BY <1>0, <1>1, <1>2, <1>3 DEF Orderly

LEMMA ChangeAcceptedKeeps ==
    ASSUME NEW p, NEW q, OrderedRequests(p, q), AuditInv, Orderly(p, q),
           NEW m \in link[q], up[p], ChangeAccepted(p, m)
    PROVE  Orderly(p, q)'
<1>0. /\ p # q /\ p \in Nodes /\ q \in Nodes /\ Typed
      /\ m.tx \in Changes \cap begun /\ m.tx \in Transactions
  BY BothAre, AnswersAre DEF AuditInv
<1>1. PICK t : t = m.tx
  OBVIOUS
<1>2. Asking(p, q, t)
  <2>1. task[p][t] = "confirmation" \/ (form[p][t] # 0 /\ state[p] = "Modify")
    BY <1>1 DEF ChangeAccepted, Attached, Relaunched
  <2>2. Asking(p, q, t) \/ Auditing(p, q, t)
    BY <1>0, <1>1, <2>1, ChangeIsThis
  <2>3. ~Auditing(p, q, t)
    BY <1>0, <1>1, <2>1 DEF Auditing, NoChange
  <2> QED BY <2>2, <2>3
<1>3. Holds(q, t)
  BY <1>1, <1>2 DEF Asking, Unaware
<1>4. /\ state' = [state EXCEPT ![p] = "AuditPending"]
      /\ outbox' = [outbox EXCEPT ![p] = Unposted(p, t)]
      /\ task' = [task EXCEPT ![p][t] = "auditing"]
      /\ Exchanges(p, m, {})
      /\ UNCHANGED <<up, saved, form, cache, begun>>
      /\ limits' = limits \/ limits' = [limits EXCEPT ![p].outgoing = Amount[t]]
  BY <1>1 DEF ChangeAccepted
<1>5. link'[p] = link[p] /\ link'[q] \subseteq link[q]
  BY <1>0, <1>4, ExchangesIs, BothAre
<1>6. SameNode(q)
  BY <1>0, <1>4 DEF SameNode, Typed
<1>7. Holds(q, t)' /\ Obliging(q)'
  BY <1>3, <1>4, <1>5, <1>6, ContractorStays DEF Orderly
<1>8. Changing(p, t)'
  <2>1. limits'[p] = [outgoing |-> Amount[t], incoming |-> saved[p].incoming]
    BY <1>0, <1>2, <1>4 DEF Asking, Changing, Typed
  <2>2. OnlyChange(p, t)'
    BY <1>0, <1>1, <1>2, <1>4 DEF Asking, Changing, OnlyChange, Typed
  <2> QED BY <1>4, <2>1, <2>2 DEF Changing
<1>9. outbox'[p] = {}
  BY <1>0, <1>2, <1>4 DEF Asking, Unposted, IncomingRequest, Request, Message, Typed
<1>10. Auditing(p, q, t)'
  <2>1. /\ state'[p] = "AuditPending" /\ task'[p][t] = "auditing" /\ saved'[q] = Mirror(saved'[p])
        /\ link'[p] \subseteq {IncomingRequest(t)}
    BY <1>0, <1>1, <1>2, <1>4, <1>5 DEF Asking, Typed
  <2> QED BY <1>7, <1>8, <1>9, <2>1 DEF Auditing
<1> QED BY <1>0, <1>1, <1>4, <1>7, <1>10 DEF Orderly

LEMMA InitAuditKeeps ==
    ASSUME NEW p, NEW q, OrderedRequests(p, q), AuditInv, Orderly(p, q),
           NEW t \in Changes, InitAudit(p, t)
    PROVE  Orderly(p, q)'
<1>0. /\ p # q /\ p \in Nodes /\ q \in Nodes /\ Typed /\ t \in Transactions /\ up[p]
      /\ task[p][t] = "auditing"
  BY BothAre, ConstantTypes DEF AuditInv, InitAudit
<1>1. t \in Changes \cap begun /\ Auditing(p, q, t) /\ Changing(p, t)
  BY <1>0, ChangeIsThis DEF Asking
<1>2. AuditRequest(p, t) = Request("Audit", t, Terms(p, form[p][t]))
  <2>1. Terms(p, form[p][t]) = NewTerms(p, t)
    BY <1>0, <1>1 DEF Changing, OnlyChange, Terms, NewTerms
  <2> QED BY <2>1 DEF AuditRequest
<1>3. PICK m : m = AuditRequest(p, t)
  OBVIOUS
<1>4. /\ task' = [task EXCEPT ![p][t] = "auditResponse"]
      /\ outbox' = [outbox EXCEPT ![p] = Posted(p, m)]
      /\ Sends(p, {m})
      /\ UNCHANGED <<up, state, limits, saved, form, cache, begun>>
  BY <1>2, <1>3 DEF InitAudit
<1>5. link'[p] = {m} /\ link'[q] = link[q]
  BY <1>4, OwnerSends
<1>6. SameNode(q)
  BY <1>0, <1>4 DEF SameNode, Typed
<1>7. Obliging(q)' /\ (Holds(q, t) => Holds(q, t)') /\ (HasSigned(p, q, t) => HasSigned(p, q, t)')
  BY <1>4, <1>5, <1>6, ContractorStays DEF Orderly
<1>8. AuditRequest(p, t)' = m
  BY <1>3, <1>4 DEF AuditRequest, NewTerms
<1>9. outbox'[p] \subseteq {m}
  <2>1. \A x \in outbox[p] : x.type = "Audit"
    BY <1>1 DEF Auditing, AuditRequest, Request, Message
  <2>2. m.type = "Audit"
    BY <1>3 DEF AuditRequest, Request, Message
  <2> QED BY <1>0, <1>4, <2>1, <2>2 DEF Posted, Typed
<1>10. Changing(p, t)' /\ task'[p][t] = "auditResponse"
  BY <1>0, <1>1, <1>4 DEF Changing, OnlyChange, Typed
<1>11. Auditing(p, q, t)'
  BY <1>1, <1>4, <1>5, <1>7, <1>8, <1>9, <1>10 DEF Auditing
<1> QED BY <1>1, <1>4, <1>7, <1>11 DEF Orderly

\* What is taken for the answer to an audit is for the change under way.
LEMMA AuditAnswerIs ==
    ASSUME NEW p, NEW q, OrderedRequests(p, q), AuditInv, Orderly(p, q), NEW m \in link[q], up[p],
           \/ Attached(p, m.tx, "auditResponse") /\ m.type = "AuditConfirmation"
           \/ Relaunched(p, m.tx) /\ state[p] = "AuditPending"
    PROVE  /\ m.tx \in Changes \cap begun /\ m.tx \in Transactions
           /\ Auditing(p, q, m.tx) /\ Changing(p, m.tx)
<1>0. m.tx \in Changes
  BY AnswersAre
<1>1. PICK t : t = m.tx
  OBVIOUS
<1>2. task[p][t] = "auditResponse" \/ (form[p][t] # 0 /\ state[p] = "AuditPending")
  BY <1>1 DEF Attached, Relaunched
<1>3. /\ t \in Changes \cap begun /\ t \in Transactions
      /\ Asking(p, q, t) \/ (Auditing(p, q, t) /\ Changing(p, t))
  BY <1>0, <1>1, <1>2, ChangeIsThis
<1>4. ~Asking(p, q, t)
  BY <1>2 DEF Asking
<1> QED BY <1>1, <1>3, <1>4

LEMMA AnswerTakenKeeps ==
    ASSUME NEW p, NEW q, OrderedRequests(p, q), AuditInv, Orderly(p, q), NEW m \in link[q], up[p],
           AuditAnswerTaken(p, m)
    PROVE  /\ link'[p] = link[p] /\ link'[q] \subseteq link[q]
           /\ outbox'[p] = {} /\ outbox'[q] = outbox[q]
           /\ limits'[q] = limits[q] /\ UNCHANGED <<up, cache>>
           /\ limits'[p] = [outgoing |-> Amount[m.tx], incoming |-> saved[p].incoming]
<1>0. p # q /\ p \in Nodes /\ q \in Nodes /\ Typed
  BY BothAre DEF AuditInv
<1>1. PICK t : t = m.tx
  OBVIOUS
<1>2. t \in Changes /\ Auditing(p, q, t) /\ Changing(p, t)
  BY <1>1, AuditAnswerIs DEF AuditAnswerTaken
<1>3. /\ outbox' = [outbox EXCEPT ![p] = Unposted(p, t)]
      /\ Exchanges(p, m, {})
      /\ UNCHANGED <<up, cache>>
      /\ limits' = limits \/ limits' = [limits EXCEPT ![p].outgoing = Amount[t]]
  BY <1>1 DEF AuditAnswerTaken
<1>4. link'[p] = link[p] /\ link'[q] \subseteq link[q]
  BY <1>0, <1>3, ExchangesIs, BothAre
<1>5. outbox'[p] = {} /\ outbox'[q] = outbox[q]
  <2>1. \A x \in outbox[p] : x.tx = t
    BY <1>2 DEF Auditing, AuditRequest, Request, Message
  <2> QED BY <1>0, <1>3, <2>1 DEF Unposted, Typed
<1>6. limits'[q] = limits[q] /\ limits'[p] = [outgoing |-> Amount[t], incoming |-> saved[p].incoming]
  BY <1>0, <1>2, <1>3 DEF Changing, Typed
<1> QED BY <1>1, <1>3, <1>4, <1>5, <1>6

LEMMA AuditAcceptedKeeps ==
    ASSUME NEW p, NEW q, OrderedRequests(p, q), AuditInv, Orderly(p, q), NEW m \in link[q], up[p],
           AuditAccepted(p, m)
    PROVE  Orderly(p, q)'
<1>0. p # q /\ p \in Nodes /\ q \in Nodes /\ Typed
  BY BothAre DEF AuditInv
<1>1. PICK t : t = m.tx
  OBVIOUS
<1>2. /\ t \in Changes \cap begun /\ t \in Transactions /\ Auditing(p, q, t) /\ Changing(p, t)
  BY <1>1, AuditAnswerIs DEF AuditAccepted, AuditAnswerTaken
<1>3. /\ link'[p] = link[p] /\ link'[q] \subseteq link[q]
      /\ outbox'[p] = {} /\ outbox'[q] = outbox[q]
      /\ limits'[q] = limits[q] /\ UNCHANGED <<up, cache, begun>>
      /\ limits'[p] = [outgoing |-> Amount[t], incoming |-> saved[p].incoming]
  BY <1>1, AnswerTakenKeeps DEF AuditAccepted
<1>4. saved[p] \in AuditTerms /\ saved[p].number \in Nat /\ form[p][t] = saved[p].number + 1
  BY <1>0, <1>2 DEF Typed, AuditTerms, Changing, OnlyChange
<1>5. OwnTerms(p, t) = NewTerms(p, t)
  BY <1>3, <1>4 DEF OwnTerms, NewTerms
<1>6. m.terms = Mirror(NewTerms(p, t))
  BY <1>1, <1>5 DEF AuditAccepted, Signed
<1>7. HasSigned(p, q, t) /\ link[p] \subseteq {AuditRequest(p, t)}
  <2>1. m.type # "Confirmation"
    <3>1. m.terms.number # 0
      BY <1>4, <1>6 DEF Mirror, NewTerms
    <3> QED BY <3>1, AnswersAre DEF NoTerms
  <2>2. ~Holds(q, t)
    BY <1>1, <2>1 DEF Holds
  <2> QED BY <1>2, <2>2 DEF Auditing
<1>8. /\ task' = [task EXCEPT ![p][t] = "none"]
      /\ saved' = [saved EXCEPT ![p] = NewTerms(p, t)]
      /\ state' = [state EXCEPT ![p] = "Active"]
      /\ form' = [form EXCEPT ![p][t] = 0]
  BY <1>1, <1>4, <1>5 DEF AuditAccepted, CanSave, Ends
<1>9. SameNode(q)
  BY <1>0, <1>3, <1>8 DEF SameNode, Typed
<1>10. Obliging(q)' /\ Rests(q)' /\ \A x : Cached(q, x) => Cached(q, x)'
  BY <1>3, <1>7, <1>9, ContractorStays DEF Orderly, HasSigned
<1>11. saved'[p] = NewTerms(p, t) /\ saved'[q] = Mirror(saved'[p])
  BY <1>0, <1>7, <1>8 DEF HasSigned, Typed
<1>12. Rests(p)'
  <2>1. limits'[p] = LimitsOf(saved'[p])
    BY <1>3, <1>11 DEF LimitsOf, NewTerms
  <2>2. NoChange(p)' /\ state'[p] = "Active"
    BY <1>0, <1>2, <1>8 DEF NoChange, Changing, OnlyChange, Typed
  <2> QED BY <2>1, <2>2 DEF Rests
<1>13. \A x \in link'[p] : x.type = "Audit" /\ Cached(q, x)'
  <2>1. AuditRequest(p, t).type = "Audit" /\ Cached(q, AuditRequest(p, t))
    BY <1>7 DEF AuditRequest, Request, Message, HasSigned, Cached
  <2> QED BY <1>3, <1>7, <1>10, <2>1
<1>14. Resting(p, q)'
  BY <1>3, <1>10, <1>11, <1>12, <1>13 DEF Resting
<1> QED BY <1>10, <1>14 DEF Orderly

\* A signature that does not fit: the owner is left with neither form nor answer.
LEMMA AuditWronglySignedKeeps ==
    ASSUME NEW p, NEW q, OrderedRequests(p, q), AuditInv, Orderly(p, q), NEW m \in link[q], up[p],
           AuditWronglySigned(p, m)
    PROVE  Orderly(p, q)'
<1>0. p # q /\ p \in Nodes /\ q \in Nodes /\ Typed
  BY BothAre DEF AuditInv
<1>1. PICK t : t = m.tx
  OBVIOUS
<1>2. /\ t \in Changes \cap begun /\ t \in Transactions /\ Auditing(p, q, t) /\ Changing(p, t)
  BY <1>1, AuditAnswerIs DEF AuditWronglySigned, AuditAnswerTaken
<1>3. /\ link'[p] = link[p] /\ link'[q] \subseteq link[q]
      /\ outbox'[p] = {} /\ outbox'[q] = outbox[q]
      /\ limits'[q] = limits[q] /\ UNCHANGED <<up, cache, begun, saved, state>>
  BY <1>1, AnswerTakenKeeps DEF AuditWronglySigned
<1>4. task' = [task EXCEPT ![p][t] = "none"] /\ form' = [form EXCEPT ![p][t] = 0]
  BY <1>1 DEF AuditWronglySigned, Ends
<1>5. SameNode(q)
  BY <1>0, <1>3, <1>4 DEF SameNode, Typed
<1>6. Obliging(q)' /\ (Holds(q, t) => Holds(q, t)') /\ (HasSigned(p, q, t) => HasSigned(p, q, t)')
  BY <1>3, <1>5, ContractorStays DEF Orderly
<1>7. NoChange(p)'
  BY <1>0, <1>2, <1>4 DEF NoChange, Changing, OnlyChange, Typed
<1>8. AuditRequest(p, t)' = AuditRequest(p, t)
  BY <1>3 DEF AuditRequest, NewTerms
<1>9. Auditing(p, q, t)'
  BY <1>2, <1>3, <1>6, <1>7, <1>8 DEF Auditing
<1> QED BY <1>2, <1>3, <1>6, <1>9 DEF Orderly

\* The process of the owner ends.
LEMMA FallenKeeps ==
    ASSUME NEW p, NEW q, OrderedRequests(p, q), AuditInv, Orderly(p, q), Falls(p),
           link'[p] = link[p], link'[q] \subseteq link[q], outbox'[q] = outbox[q],
           \/ outbox'[p] = outbox[p]
           \/ outbox'[p] \subseteq outbox[p] /\ state[p] = "AuditPending",
           UNCHANGED <<state, limits, saved, form, begun>>
    PROVE  Orderly(p, q)'
<1>0. p # q /\ p \in Nodes /\ q \in Nodes /\ Typed
  BY BothAre DEF AuditInv
<1>1. /\ up'[p] = FALSE /\ \A x \in Transactions : task'[p][x] = "none"
      /\ SameNode(q)
  BY <1>0 DEF Falls, SameNode, Typed
<1>2. /\ Obliging(q)' /\ (Rests(q) => Rests(q)')
      /\ \A t : Unaware(q, t) => Unaware(q, t)'
      /\ \A t : Holds(q, t) => Holds(q, t)'
      /\ \A m : Cached(q, m) => Cached(q, m)'
      /\ \A t : HasSigned(p, q, t) => HasSigned(p, q, t)'
  BY <1>1, ContractorStays DEF Orderly
<1>3. CASE Resting(p, q)
  <2>1. Rests(p)'
    BY <1>1, <1>3 DEF Resting, Rests, NoChange
  <2>2. outbox'[p] = {}
    BY <1>3 DEF Resting
  <2>3. Resting(p, q)'
    BY <1>2, <1>3, <2>1, <2>2 DEF Resting
  <2> QED BY <1>2, <2>3 DEF Orderly
<1>4. ASSUME NEW t \in Changes \cap begun, Asking(p, q, t) PROVE Orderly(p, q)'
  <2>0. t \in Transactions
    BY ConstantTypes
  <2>1. Changing(p, t)' /\ task'[p][t] = "none"
    BY <1>1, <1>4, <2>0 DEF Asking, Changing, OnlyChange
  <2>2. outbox'[p] = outbox[p]
    BY <1>4 DEF Asking
  <2>3. Asking(p, q, t)'
    BY <1>2, <1>4, <2>1, <2>2 DEF Asking
  <2> QED BY <1>2, <2>3 DEF Orderly
<1>5. ASSUME NEW t \in Changes \cap begun, Auditing(p, q, t) PROVE Orderly(p, q)'
  <2>0. t \in Transactions
    BY ConstantTypes
  <2>1. (Changing(p, t)' /\ task'[p][t] = "none") \/ NoChange(p)'
    BY <1>1, <1>5, <2>0 DEF Auditing, NoChange, Changing, OnlyChange
  <2>2. outbox'[p] \subseteq outbox[p] /\ AuditRequest(p, t)' = AuditRequest(p, t)
    BY DEF AuditRequest, NewTerms
  <2>3. Auditing(p, q, t)'
    BY <1>2, <1>5, <2>1, <2>2 DEF Auditing
  <2> QED BY <1>2, <2>3 DEF Orderly
<1> QED BY <1>3, <1>4, <1>5 DEF Orderly

LEMMA ConfirmationMisreadKeeps ==
    ASSUME NEW p, NEW q, OrderedRequests(p, q), AuditInv, Orderly(p, q), NEW m \in link[q], up[p],
           ConfirmationMisread(p, m)
    PROVE  Orderly(p, q)'
<1>0. p # q /\ p \in Nodes /\ q \in Nodes /\ Typed
  BY BothAre DEF AuditInv
<1>1. /\ Falls(p) /\ Exchanges(p, m, {}) /\ state[p] = "AuditPending"
      /\ outbox' = [outbox EXCEPT ![p] = Unposted(p, m.tx)]
      /\ UNCHANGED <<state, limits, saved, form, begun>>
  BY DEF ConfirmationMisread
<1>2. link'[p] = link[p] /\ link'[q] \subseteq link[q]
  BY <1>0, <1>1, ExchangesIs, BothAre
<1>3. outbox'[q] = outbox[q] /\ outbox'[p] \subseteq outbox[p]
  BY <1>0, <1>1 DEF Unposted, Typed
<1> QED BY <1>1, <1>2, <1>3, FallenKeeps

LEMMA CrashKeeps ==
    ASSUME NEW p, NEW q, OrderedRequests(p, q), AuditInv, Orderly(p, q), NEW n \in Nodes, Crash(n)
    PROVE  Orderly(p, q)'
<1>1. n = p
  <2>1. crashes[q] \in Nat
    BY BothAre DEF AuditInv, Typed
  <2> QED BY <2>1, BothAre DEF Crash, OrderedRequests
<1>2. Falls(p) /\ UNCHANGED <<state, limits, saved, form, outbox, link, begun>>
  BY <1>1 DEF Crash
<1> QED BY <1>2, FallenKeeps

\* The owner reads its line back, and with it the change that it has a form of.
LEMMA RestartKeeps ==
    ASSUME NEW p, NEW q, OrderedRequests(p, q), AuditInv, Orderly(p, q), NEW n \in Nodes, Restart(n)
    PROVE  Orderly(p, q)'
<1>0. /\ n = p /\ p # q /\ p \in Nodes /\ q \in Nodes /\ Typed
      /\ \A t \in Changes : Owner[t] = p
  BY BothAre DEF AuditInv, Restart, Orderly, Obliging
<1>1. PICK out \in FormAmounts(p, "outgoing", {"Modify", "AuditPending"}) \cup {saved[p].outgoing},
           in \in FormAmounts(p, "incoming", {"AuditPending"}) \cup {saved[p].incoming} :
         /\ FormAmounts(p, "outgoing", {"Modify", "AuditPending"}) # {} =>
                out \in FormAmounts(p, "outgoing", {"Modify", "AuditPending"})
         /\ limits' = [limits EXCEPT ![p] = [outgoing |-> out, incoming |-> in]]
  <2>1. Restart(p)
    BY <1>0
  <2> QED BY <2>1 DEF Restart
<1>2. /\ up' = [up EXCEPT ![p] = TRUE]
      /\ UNCHANGED <<state, saved, form, task, outbox, cache, link, begun, crashes>>
  BY <1>0 DEF Restart
<1>3. in = saved[p].incoming
  BY <1>0, <1>1 DEF FormAmounts
<1>4. limits'[p] = [outgoing |-> out, incoming |-> saved[p].incoming]
  BY <1>0, <1>1, <1>3 DEF Typed
<1>5. SameNode(q)
  BY <1>0, <1>1, <1>2 DEF SameNode, Typed
<1>6. /\ Obliging(q)' /\ (Rests(q) => Rests(q)')
      /\ \A t : Unaware(q, t) => Unaware(q, t)'
      /\ \A t : Holds(q, t) => Holds(q, t)'
      /\ \A m : Cached(q, m) => Cached(q, m)'
      /\ \A t : HasSigned(p, q, t) => HasSigned(p, q, t)'
  BY <1>2, <1>5, ContractorStays DEF Orderly
<1>7. CASE Resting(p, q)
  <2>1. FormAmounts(p, "outgoing", {"Modify", "AuditPending"}) = {}
    BY <1>7 DEF Resting, Rests, FormAmounts
  <2>2. Rests(p)'
    BY <1>1, <1>2, <1>4, <1>7, <2>1 DEF Resting, Rests, NoChange, LimitsOf
  <2>3. Resting(p, q)'
    BY <1>2, <1>6, <1>7, <2>2 DEF Resting
  <2> QED BY <1>6, <2>3 DEF Orderly
<1>8. ASSUME NEW t \in Changes, OnlyChange(p, t), state[p] \in {"Modify", "AuditPending"}
      PROVE  Changing(p, t)'
  <2>1. form[p][t] # 0
    BY <1>0, <1>8 DEF OnlyChange, Typed, AuditTerms
  <2>2. FormAmounts(p, "outgoing", {"Modify", "AuditPending"}) = {Amount[t]}
    BY <1>0, <1>8, <2>1 DEF FormAmounts, OnlyChange
  <2> QED BY <1>1, <1>2, <1>4, <1>8, <2>2 DEF Changing, OnlyChange
<1>9. ASSUME NEW t \in Changes \cap begun, Asking(p, q, t) PROVE Orderly(p, q)'
  <2>1. Changing(p, t)'
    BY <1>8, <1>9 DEF Asking, Changing
  <2>2. Asking(p, q, t)'
    BY <1>2, <1>6, <1>9, <2>1 DEF Asking
  <2> QED BY <1>2, <1>6, <2>2 DEF Orderly
<1>10. ASSUME NEW t \in Changes \cap begun, Auditing(p, q, t) PROVE Orderly(p, q)'
  <2>1. NoChange(p)' \/ (Changing(p, t)' /\ task'[p][t] \in {"auditing", "auditResponse", "none"})
    BY <1>2, <1>8, <1>10 DEF Auditing, NoChange, Changing
  <2>2. AuditRequest(p, t)' = AuditRequest(p, t)
    BY <1>2 DEF AuditRequest, NewTerms
  <2>3. Auditing(p, q, t)'
    BY <1>2, <1>6, <1>10, <2>1, <2>2 DEF Auditing
  <2> QED BY <1>2, <1>6, <2>3 DEF Orderly
<1> QED BY <1>7, <1>9, <1>10 DEF Orderly

\* Either of the two may be impatient.
LEMMA TimeoutKeeps ==
    ASSUME NEW p, NEW q, OrderedRequests(p, q), AuditInv, Orderly(p, q),
           NEW n \in Nodes, NEW x \in Transactions, Timeout(n, x)
    PROVE  Orderly(p, q)'
<1>0. /\ p # q /\ p \in Nodes /\ q \in Nodes /\ Typed /\ (n = p \/ n = q)
  BY BothAre DEF AuditInv
<1>1. /\ task' = [task EXCEPT ![n][x] = "none"]
      /\ task[n][x] \in {"confirmation", "auditResponse", "audit", "resolverResponse"}
      /\ UNCHANGED <<up, state, limits, saved, form, outbox, cache, link, begun, crashes>>
  BY DEF Timeout, Ends
<1>2. \A k \in Nodes : \A y \in Transactions :
         task'[k][y] = IF k = n /\ y = x THEN "none" ELSE task[k][y]
  BY <1>0, <1>1 DEF Typed
<1>3. Obliging(q)' /\ \A m : Cached(q, m)' <=> Cached(q, m)
  BY <1>1 DEF Orderly, Obliging, HasCached, Cached
<1>4. (Rests(p) => Rests(p)') /\ (Rests(q) => Rests(q)') /\ (NoChange(p) => NoChange(p)')
  BY <1>0, <1>1, <1>2 DEF Rests, NoChange
<1>5. ASSUME NEW t \in Changes
      PROVE  /\ Unaware(q, t) => Unaware(q, t)'
             /\ Holds(q, t) => Holds(q, t)'
             /\ HasSigned(p, q, t) => HasSigned(p, q, t)'
             /\ Changing(p, t) => Changing(p, t)'
             /\ task'[p][t] \in {task[p][t], "none"}
             /\ AuditRequest(p, t)' = AuditRequest(p, t)
  <2>0. t \in Transactions
    BY ConstantTypes
  <2>1. Unaware(q, t) => Unaware(q, t)'
    BY <1>1, <1>4 DEF Unaware, HasCached
  <2>2. HasSigned(p, q, t) => HasSigned(p, q, t)'
    BY <1>1, <1>4 DEF HasSigned, NewTerms
  <2>3. Holds(q, t) => Holds(q, t)'
    BY <1>0, <1>1, <1>2, <2>0 DEF Holds, OnlyChange
  <2>4. Changing(p, t) => Changing(p, t)'
    BY <1>0, <1>1, <1>2 DEF Changing, OnlyChange
  <2>5. AuditRequest(p, t)' = AuditRequest(p, t)
    BY <1>1 DEF AuditRequest, NewTerms
  <2> QED BY <1>0, <1>2, <2>0, <2>1, <2>2, <2>3, <2>4, <2>5
<1>6. CASE Resting(p, q)
  <2>1. Resting(p, q)'
    BY <1>1, <1>3, <1>4, <1>6 DEF Resting
  <2> QED BY <1>3, <2>1 DEF Orderly
<1>7. ASSUME NEW t \in Changes \cap begun, Asking(p, q, t) PROVE Orderly(p, q)'
  <2>1. Asking(p, q, t)'
    BY <1>1, <1>5, <1>7 DEF Asking
  <2> QED BY <1>1, <1>3, <2>1 DEF Orderly
<1>8. ASSUME NEW t \in Changes \cap begun, Auditing(p, q, t) PROVE Orderly(p, q)'
  <2>1. Auditing(p, q, t)'
    BY <1>1, <1>4, <1>5, <1>8 DEF Auditing
  <2> QED BY <1>1, <1>3, <2>1 DEF Orderly
<1> QED BY <1>6, <1>7, <1>8 DEF Orderly

-----------------------------------------------------------------------------
(* Steps of the contractor. *)

\* A request that no cached answer answers is of the change under way.
LEMMA IncomingIs ==
    ASSUME NEW p, NEW q, OrderedRequests(p, q), AuditInv, Orderly(p, q),
           NEW m \in link[p], m.type = "SetIncoming", ~Cached(q, m)
    PROVE  \E t \in Changes \cap begun : Asking(p, q, t) /\ Unaware(q, t) /\ m = IncomingRequest(t)
<1>1. ~Resting(p, q)
  BY DEF Resting
<1>2. ASSUME NEW t, Holds(q, t), m = IncomingRequest(t) PROVE FALSE
  BY <1>2 DEF Holds, Cached, IncomingRequest, Request, Message
<1>3. ASSUME NEW t, m = AuditRequest(p, t) PROVE FALSE
  BY <1>3 DEF AuditRequest, Request, Message
<1>4. \A t : ~Auditing(p, q, t)
  BY <1>2, <1>3 DEF Auditing
<1>5. PICK t \in Changes \cap begun : Asking(p, q, t)
  BY <1>1, <1>4 DEF Orderly
<1>6. m = IncomingRequest(t)
  BY <1>5 DEF Asking
<1> QED BY <1>2, <1>5, <1>6 DEF Asking

LEMMA AuditIs ==
    ASSUME NEW p, NEW q, OrderedRequests(p, q), AuditInv, Orderly(p, q),
           NEW m \in link[p], m.type = "Audit", ~Cached(q, m)
    PROVE  \E t \in Changes \cap begun :
              /\ Auditing(p, q, t) /\ Holds(q, t) /\ saved[q] = Mirror(saved[p])
              /\ m = AuditRequest(p, t) /\ link[p] \subseteq {m}
<1>1. ~Resting(p, q)
  BY DEF Resting
<1>2. ASSUME NEW t, HasSigned(p, q, t), m = AuditRequest(p, t) PROVE FALSE
  BY <1>2 DEF HasSigned, Cached, AuditRequest, Request, Message
<1>3. ASSUME NEW t, m = IncomingRequest(t) PROVE FALSE
  BY <1>3 DEF IncomingRequest, Request, Message
<1>4. \A t : ~Asking(p, q, t)
  BY <1>3 DEF Asking
<1>5. PICK t \in Changes \cap begun : Auditing(p, q, t)
  BY <1>1, <1>4 DEF Orderly
<1>6. m = AuditRequest(p, t) /\ link[p] \subseteq {m}
  BY <1>3, <1>5 DEF Auditing
<1> QED BY <1>2, <1>5, <1>6 DEF Auditing

LEMMA SetIncomingKeeps ==
    ASSUME NEW p, NEW q, OrderedRequests(p, q), AuditInv, Orderly(p, q),
           NEW m \in link[p], m.type = "SetIncoming", SetIncoming(q, m)
    PROVE  Orderly(p, q)'
<1>0. p # q /\ p \in Nodes /\ q \in Nodes /\ Typed
  BY BothAre DEF AuditInv
<1>1. PICK t \in Changes \cap begun : Asking(p, q, t) /\ Unaware(q, t) /\ m = IncomingRequest(t)
  BY IncomingIs DEF SetIncoming
<1>2. m.tx = t /\ m.type = "SetIncoming" /\ t \in Transactions
  BY <1>1, ConstantTypes DEF IncomingRequest, Request, Message
<1>3. PICK answer : answer = Message("Confirmation", t, "OK", NoTerms)
  OBVIOUS
<1>4. /\ state' = [state EXCEPT ![q] = "AuditPending"]
      /\ limits' = [limits EXCEPT ![q].incoming = Amount[t]]
      /\ form' = [form EXCEPT ![q][t] = saved[q].number + 1]
      /\ task' = [task EXCEPT ![q][t] = "audit"]
      /\ cache' = [cache EXCEPT ![q] = [filter |-> "SetIncoming", answer |-> answer]]
      /\ Exchanges(q, m, {answer})
      /\ UNCHANGED <<up, saved, outbox, begun>>
  BY <1>2, <1>3 DEF SetIncoming, AnswersAndCaches, NextNumber
<1>5. link'[p] \subseteq link[p] /\ link'[q] \subseteq link[q] \cup {answer}
  BY <1>0, <1>4, ExchangesIs, BothAre
<1>6. /\ answer.type = "Confirmation" /\ answer.tx = t /\ answer.answer = "OK"
  BY <1>3 DEF Message
<1>7. cache'[q] = [filter |-> "SetIncoming", answer |-> answer]
  BY <1>0, <1>4 DEF Typed
<1>8. Obliging(q)'
  BY <1>1, <1>4, <1>5, <1>6, <1>7 DEF Orderly, Obliging
<1>9. Holds(q, t)'
  <2>1. limits'[q] = [outgoing |-> saved[q].outgoing, incoming |-> Amount[t]]
    <3>1. limits[q] = LimitsOf(saved[q])
      BY <1>1 DEF Unaware, Rests, Orderly, Obliging
    <3>2. limits'[q] = [limits[q] EXCEPT !.incoming = Amount[t]]
      BY <1>0, <1>4 DEF Typed
    <3> QED BY <3>1, <3>2 DEF LimitsOf
  <2>2. OnlyChange(q, t)' /\ task'[q][t] = "audit" /\ state'[q] = "AuditPending"
    BY <1>0, <1>1, <1>2, <1>4 DEF Unaware, Rests, NoChange, OnlyChange, Typed
  <2>3. \A x \in link'[q] : x.tx = t => x.type = "Confirmation"
    BY <1>1, <1>5, <1>6 DEF Unaware
  <2> QED BY <1>3, <1>4, <1>7, <2>1, <2>2, <2>3 DEF Holds
<1>10. Asking(p, q, t)'
  <2>1. Changing(p, t)' /\ task'[p][t] = task[p][t] /\ state'[p] = state[p]
    BY <1>0, <1>1, <1>4 DEF Asking, Changing, OnlyChange, Typed
  <2> QED BY <1>1, <1>4, <1>5, <1>9, <2>1 DEF Asking
<1> QED BY <1>1, <1>4, <1>8, <1>10 DEF Orderly

\* What the contractor would sign is what the owner asks for.
LEMMA AsksForHeld ==
    ASSUME NEW p, NEW q, OrderedRequests(p, q), AuditInv, NEW t \in Changes,
           Holds(q, t), saved[q] = Mirror(saved[p]), NEW m, m = AuditRequest(p, t)
    PROVE  /\ m.tx = t
           /\ TargetTerms(q, m) = Mirror(m.terms) /\ m.terms = NewTerms(p, t)
           /\ Signed(TargetTerms(q, m), m.terms) /\ CanSave(q, TargetNumber(q, m))
           /\ TargetLimits(q, m) = [outgoing |-> saved[q].outgoing, incoming |-> Amount[t]]
<1>0. p # q /\ p \in Nodes /\ q \in Nodes /\ Typed
  BY BothAre DEF AuditInv
<1>1. m.tx = t /\ m.terms = NewTerms(p, t)
  BY DEF AuditRequest, Request, Message
<1>2. saved[q].number \in Nat /\ saved[q].number = saved[p].number /\ saved[q].outgoing = saved[p].incoming
  BY <1>0 DEF Typed, AuditTerms, Mirror
<1>3. TargetNumber(q, m) = saved[p].number + 1
  BY <1>1, <1>2 DEF TargetNumber, Holds, OnlyChange
<1>4. TargetLimits(q, m) = [outgoing |-> saved[q].outgoing, incoming |-> Amount[t]]
  BY <1>1 DEF TargetLimits, Holds
<1>5. TargetTerms(q, m) = [number |-> saved[p].number + 1, outgoing |-> saved[p].incoming,
                           incoming |-> Amount[t]]
  BY <1>2, <1>3, <1>4 DEF TargetTerms
<1>6. TargetTerms(q, m) = Mirror(m.terms)
  BY <1>1, <1>5 DEF Mirror, NewTerms
<1>7. m.terms = Mirror(TargetTerms(q, m))
  BY <1>1, <1>5 DEF Mirror, NewTerms
<1> QED BY <1>1, <1>2, <1>3, <1>4, <1>6, <1>7 DEF Signed, CanSave

LEMMA SignAuditKeeps ==
    ASSUME NEW p, NEW q, OrderedRequests(p, q), AuditInv, Orderly(p, q),
           NEW m \in link[p], m.type = "Audit", SignAudit(q, m)
    PROVE  Orderly(p, q)'
<1>0. p # q /\ p \in Nodes /\ q \in Nodes /\ Typed
  BY BothAre DEF AuditInv
<1>1. PICK t \in Changes \cap begun :
         /\ Auditing(p, q, t) /\ Holds(q, t) /\ saved[q] = Mirror(saved[p])
         /\ m = AuditRequest(p, t) /\ link[p] \subseteq {m}
  BY AuditIs DEF SignAudit, AuditTaken
<1>2. PICK terms : terms = Mirror(NewTerms(p, t))
  OBVIOUS
<1>3. /\ m.tx = t /\ TargetTerms(q, m) = terms /\ t \in Transactions
      /\ TargetLimits(q, m) = LimitsOf(terms)
  <2>1. /\ m.tx = t /\ TargetTerms(q, m) = terms /\ t \in Transactions
        /\ TargetLimits(q, m) = [outgoing |-> saved[q].outgoing, incoming |-> Amount[t]]
    BY <1>1, <1>2, AsksForHeld, ConstantTypes
  <2>2. LimitsOf(terms) = [outgoing |-> saved[q].outgoing, incoming |-> Amount[t]]
    BY <1>1, <1>2 DEF LimitsOf, Mirror, NewTerms
  <2> QED BY <2>1, <2>2
<1>4. PICK answer : answer = Message("AuditConfirmation", t, "OK", terms)
  OBVIOUS
<1>5. /\ limits' = [limits EXCEPT ![q] = LimitsOf(terms)]
      /\ saved' = [saved EXCEPT ![q] = terms]
      /\ state' = [state EXCEPT ![q] = "Active"]
      /\ form' = [form EXCEPT ![q][t] = 0]
      /\ task' = [task EXCEPT ![q][t] = "none"]
      /\ cache' = [cache EXCEPT ![q] = [filter |-> "Audit", answer |-> answer]]
      /\ Exchanges(q, m, {answer})
      /\ UNCHANGED <<up, outbox, begun>>
  BY <1>3, <1>4 DEF SignAudit, AuditTaken, AnswersAndCaches, Ends
<1>6. link'[p] = {} /\ link'[q] \subseteq link[q] \cup {answer}
  BY <1>0, <1>1, <1>5, ExchangesIs, BothAre
<1>7. answer.type = "AuditConfirmation" /\ answer.tx = t /\ answer.answer = "OK" /\ answer.terms = terms
  BY <1>4 DEF Message
<1>8. cache'[q] = [filter |-> "Audit", answer |-> answer] /\ saved'[q] = terms /\ saved'[p] = saved[p]
  BY <1>0, <1>5 DEF Typed
<1>9. Obliging(q)'
  BY <1>1, <1>5, <1>6, <1>7, <1>8 DEF Orderly, Obliging
<1>10. HasSigned(p, q, t)'
  <2>1. Rests(q)'
    <3>1. NoChange(q)'
      BY <1>0, <1>1, <1>3, <1>5 DEF Holds, OnlyChange, NoChange, Typed
    <3>2. state'[q] = "Active" /\ limits'[q] = LimitsOf(saved'[q])
      BY <1>0, <1>5, <1>8 DEF Typed
    <3> QED BY <3>1, <3>2 DEF Rests
  <2>2. saved'[q] = Mirror(NewTerms(p, t)')
    BY <1>2, <1>8 DEF NewTerms
  <2>3. \A x \in link'[q] : x.tx = t /\ x.type = "AuditConfirmation" => x.terms = saved'[q]
    BY <1>1, <1>6, <1>7, <1>8 DEF Holds
  <2> QED BY <1>4, <1>8, <2>1, <2>2, <2>3 DEF HasSigned
<1>11. Auditing(p, q, t)'
  <2>1. (Changing(p, t) => Changing(p, t)') /\ (NoChange(p) => NoChange(p)')
        /\ task'[p][t] = task[p][t] /\ state'[p] = state[p]
    BY <1>0, <1>3, <1>5, <1>8 DEF Changing, OnlyChange, NoChange, Typed
  <2>2. AuditRequest(p, t)' = AuditRequest(p, t)
    BY <1>8 DEF AuditRequest, NewTerms
  <2> QED BY <1>1, <1>5, <1>6, <1>10, <2>1, <2>2 DEF Auditing
<1> QED BY <1>1, <1>5, <1>9, <1>11 DEF Orderly

\* Nothing that the owner asks for is refused.
LEMMA NeverRefused ==
    ASSUME NEW p, NEW q, OrderedRequests(p, q), AuditInv, Orderly(p, q), NEW m \in link[p], up[q]
    PROVE  /\ m.type = "SetIncoming" => ~RefuseIncoming(q, m)
           /\ m.type = "Audit" => ~RefuseAudit(q, m) /\ ~LeaveAudit(q, m)
<1>1. ASSUME m.type = "SetIncoming", RefuseIncoming(q, m) PROVE FALSE
  <2>1. PICK t \in Changes \cap begun : Unaware(q, t) /\ m = IncomingRequest(t)
    BY <1>1, IncomingIs DEF RefuseIncoming
  <2>2. m.tx \in Transactions
    BY <2>1, ConstantTypes DEF IncomingRequest, Request, Message
  <2> QED BY <1>1, <2>1, <2>2 DEF RefuseIncoming, Unaware, Rests, NoChange
<1>2. ASSUME m.type = "Audit", RefuseAudit(q, m) \/ LeaveAudit(q, m) PROVE FALSE
  <2>1. PICK t \in Changes \cap begun :
           Holds(q, t) /\ saved[q] = Mirror(saved[p]) /\ m = AuditRequest(p, t)
    BY <1>2, AuditIs DEF RefuseAudit, LeaveAudit, AuditTaken
  <2>2. Signed(TargetTerms(q, m), m.terms) /\ CanSave(q, TargetNumber(q, m))
    BY <2>1, AsksForHeld
  <2> QED BY <1>2, <2>1, <2>2 DEF RefuseAudit, LeaveAudit, Holds
<1> QED BY <1>1, <1>2

\* No conflict arises, and what is sent finds who it is for.
LEMMA NeverTaken ==
    ASSUME NEW p, NEW q, OrderedRequests(p, q), AuditInv, Orderly(p, q), NEW n \in Nodes
    PROVE  /\ \A t \in Changes : ~AuditNotPending(n, t) /\ (InitAudit(n, t) => n = p)
           /\ \A r \in Resolvers : ~Resolve(n, r)
           /\ \A m \in link[q] : ~ChangeRefused(p, m) /\ ~AuditRefused(p, m)
<1>0. n = p \/ n = q
  BY BothAre
<1>1. \A t \in Transactions : task[q][t] \in {"audit", "none"}
  BY DEF Orderly, Resting, Asking, Auditing, Unaware, Holds, HasSigned, Rests, NoChange, OnlyChange
<1>2. ASSUME NEW t \in Transactions
      PROVE  task[p][t] # "resolving" /\ (task[p][t] = "auditing" => state[p] = "AuditPending")
  <2>1. CASE Resting(p, q)
    BY <2>1 DEF Resting, Rests, NoChange
  <2>2. ASSUME NEW x \in Changes, Asking(p, q, x)
        PROVE  task[p][t] # "resolving" /\ (task[p][t] = "auditing" => state[p] = "AuditPending")
    BY <2>2 DEF Asking, Changing, OnlyChange
  <2>3. ASSUME NEW x \in Changes, Auditing(p, q, x)
        PROVE  task[p][t] # "resolving" /\ (task[p][t] = "auditing" => state[p] = "AuditPending")
    BY <2>3 DEF Auditing, NoChange, Changing, OnlyChange
  <2> QED BY <2>1, <2>2, <2>3 DEF Orderly
<1>3. \A t \in Changes : t \in Transactions
  BY ConstantTypes
<1>4. \A r \in Resolvers : r \in Transactions
  BY ConstantTypes
<1>5. \A t \in Changes : ~AuditNotPending(n, t) /\ (InitAudit(n, t) => n = p)
  BY <1>0, <1>1, <1>2, <1>3 DEF AuditNotPending, InitAudit
<1>6. \A r \in Resolvers : ~Resolve(n, r)
  BY <1>0, <1>1, <1>2, <1>4 DEF Resolve
<1>7. \A m \in link[q] : ~ChangeRefused(p, m) /\ ~AuditRefused(p, m)
  BY AnswersAre DEF ChangeRefused, AuditRefused
<1> QED BY <1>5, <1>6, <1>7

LEMMA OrderlyStays ==
    ASSUME NEW p, NEW q, OrderedRequests(p, q), AuditInv, Orderly(p, q), [Next]_vars
    PROVE  Orderly(p, q)'
<1>0. p \in Nodes /\ q \in Nodes /\ p # q /\ Peer(p) = q /\ Peer(q) = p /\ \A n \in Nodes : n = p \/ n = q
  BY BothAre
<1>1. CASE UNCHANGED vars
  BY <1>0, <1>1, QuietKeeps
<1>2. ASSUME NEW n \in Nodes, Answer(n) PROVE Orderly(p, q)'
  <2>1. PICK m \in Arrived(n, "SetIncoming") \cup Arrived(n, "Audit") \cup Arrived(n, "ConflictResolver") :
           \/ AnswerFromCache(n, m) /\ m.type \in {"SetIncoming", "Audit"}
           \/ (SetIncoming(n, m) \/ RefuseIncoming(n, m)) /\ m.type = "SetIncoming"
           \/ (SignAudit(n, m) \/ RefuseAudit(n, m) \/ LeaveAudit(n, m)) /\ m.type = "Audit"
           \/ m.type = "ConflictResolver"
    BY <1>2 DEF Answer, Arrived
  <2>2. m \in link[Peer(n)] /\ up[n] /\ m.type \in {"SetIncoming", "Audit", "ConflictResolver"}
    BY <2>1 DEF Arrived
  <2>3. n = q /\ m \in link[p] /\ up[q]
    BY <1>0, <2>2, AnswersAre
  <2>4. CASE AnswerFromCache(n, m) /\ m.type \in {"SetIncoming", "Audit"}
    <3>1. m \in Arrived(n, "SetIncoming") \cup Arrived(n, "Audit")
      BY <2>2, <2>4 DEF Arrived
    <3> QED BY <2>4, <3>1, QuietKeeps
  <2> QED BY <2>1, <2>3, <2>4, RequestsAre, NeverRefused, SetIncomingKeeps, SignAuditKeeps
<1>3. ASSUME NEW n \in Nodes, Proceed(n) PROVE Orderly(p, q)'
  <2>1. PICK m \in Arrived(n, "Confirmation") \cup Arrived(n, "AuditConfirmation")
                       \cup Arrived(n, "ResolverConfirmation") :
           \/ m.type = "ResolverConfirmation"
           \/ ChangeAccepted(n, m) \/ ChangeRefused(n, m)
           \/ AuditAccepted(n, m) \/ AuditWronglySigned(n, m) \/ AuditRefused(n, m)
           \/ ConfirmationMisread(n, m)
           \/ DropAnswer(n, m)
    BY <1>3 DEF Proceed, Arrived
  <2>2. /\ m \in link[Peer(n)] /\ up[n]
        /\ m.type \in {"Confirmation", "AuditConfirmation", "ResolverConfirmation"}
    BY <2>1 DEF Arrived
  <2>3. n = p /\ m \in link[q] /\ up[p]
    BY <1>0, <2>2, RequestsAre
  <2>4. m.type # "ResolverConfirmation"
    BY <2>3, AnswersAre
  <2> QED BY <2>1, <2>3, <2>4, NeverTaken, ChangeAcceptedKeeps, AuditAcceptedKeeps,
             AuditWronglySignedKeeps, ConfirmationMisreadKeeps, QuietKeeps
<1>4. ASSUME NEW n \in Nodes, Awake(n) PROVE Orderly(p, q)'
  BY <1>4, NeverTaken, InitAuditKeeps DEF Awake
<1>5. ASSUME NEW n \in Nodes,
             \/ \E t \in Changes : SetOutgoing(n, t)
             \/ \E t \in Transactions : Timeout(n, t)
             \/ Resend(n) \/ Lose(n) \/ Crash(n) \/ Restart(n)
      PROVE  Orderly(p, q)'
  BY <1>5, SetOutgoingKeeps, TimeoutKeeps, QuietKeeps, CrashKeeps, RestartKeeps
<1> QED BY <1>1, <1>2, <1>3, <1>4, <1>5 DEF Next

LEMMA InitOrderly ==
    ASSUME NEW p, NEW q, OrderedRequests(p, q), Init
    PROVE  Orderly(p, q)
<1>0. p \in Nodes /\ q \in Nodes
  BY BothAre
<1>1. Mirror(FirstTerms) = FirstTerms
  BY DEF FirstTerms, Mirror
<1>2. Rests(p) /\ Rests(q)
  BY <1>0 DEF Init, Rests, NoChange
<1>3. Resting(p, q) /\ Obliging(q)
  BY <1>0, <1>1, <1>2 DEF Init, Resting, Obliging, HasCached
<1> QED BY <1>3 DEF Orderly

\* A line in use has the limits of its last audit, for any number of changes by
\* one node: when the contractor does not crash and gets the requests in order, no
\* timeout of either node, no crash of the owner and no lost, late or repeated
\* answer brings a node back to Active with a limit that is not audited.
THEOREM OrderedUsable ==
    ASSUME NEW p, NEW q, OrderedRequests(p, q)
    PROVE  Spec => []UsableIsAudited
<1>1. Init => Orderly(p, q)
  BY InitOrderly
<1>2. AuditInv /\ Orderly(p, q) /\ [Next]_vars => Orderly(p, q)'
  BY OrderlyStays
<1>3. Orderly(p, q) => UsableIsAudited
  <2>1. ASSUME Orderly(p, q), NEW n \in Nodes, state[n] = "Active", up[n]
        PROVE  limits[n] = LimitsOf(saved[n])
    <3>1. n = p \/ n = q
      BY BothAre
    <3>2. CASE Resting(p, q)
      BY <2>1, <3>1, <3>2 DEF Resting, Rests
    <3>3. ASSUME NEW t, Asking(p, q, t) PROVE limits[n] = LimitsOf(saved[n])
      BY <2>1, <3>1, <3>3 DEF Asking, Unaware, Holds, Rests
    <3>4. ASSUME NEW t, Auditing(p, q, t) PROVE limits[n] = LimitsOf(saved[n])
      BY <2>1, <3>1, <3>4 DEF Auditing, Holds, HasSigned, Rests
    <3> QED BY <2>1, <3>2, <3>3, <3>4 DEF Orderly
  <2> QED BY <2>1 DEF UsableIsAudited
<1> QED BY <1>1, <1>2, <1>3, Invariance, PTL DEF Spec
=============================================================================
