----------------------------- MODULE SessionProofs -----------------------------
(***************************************************************************)
(* Proofs about Sessions: the types, the token a page uses, what may end a *)
(* session, and which tokens are refused for good.  Fairness is not needed *)
(* for any of them.                                                        *)
(***************************************************************************)
EXTENDS Sessions, AccessStoreProofs

-----------------------------------------------------------------------------
(***************************************************************************)
(* The tab and its requests.  What makes the types inductive: a request    *)
(* names tokens that were issued.  What the steps of the page need: it     *)
(* tells of an expired session only while it has no token.                 *)
(***************************************************************************)

WireNamesTokens == \A r \in wire : r.token \in 0 .. Len(tokens) /\ r.grant \in 0 .. Len(tokens)

ExpiryEndsTab == notice = "expired" => tab = None

SessionInv == SessionTypeOK /\ WireNamesTokens /\ PageUsesOwnToken /\ ExpiryEndsTab

LEMMA InitSessionInv == SessionInit => SessionInv
<1> SUFFICES ASSUME SessionInit PROVE SessionInv
  OBVIOUS
<1>1. tokens \in Seq(Token) /\ Len(tokens) = 0
  BY DEF SessionInit
<1>2. sent \in 0 .. MaxRequests /\ Len(tokens) <= MaxTokens
  BY <1>1, SessionAssumption DEF SessionInit
<1>3. {tab, user, timer} \subseteq 0 .. Len(tokens)
  BY <1>1 DEF SessionInit, None
<1> QED
  BY <1>1, <1>2, <1>3
  DEF SessionInit, SessionInv, SessionTypeOK, WireNamesTokens, PageUsesOwnToken, ExpiryEndsTab

\* An answer changes neither what was asked nor the token it was asked with.
LEMMA AnsweredFacts ==
  ASSUME SessionInv, NEW r \in wire, NEW a \in {"none", "ok", "refused", "other"},
         NEW n \in Nat, NEW g \in 0 .. n, Len(tokens) <= n, n <= MaxTokens
  PROVE  /\ Answered(r, a, g) \subseteq Request
         /\ \A x \in Answered(r, a, g) : x.token \in 0 .. n /\ x.grant \in 0 .. n
         /\ (\E x \in wire : x.kind = "me") => \E x \in Answered(r, a, g) : x.kind = "me"
<1> DEFINE new == [r EXCEPT !.answer = a, !.grant = g]
<1>1. wire \subseteq Request /\ r \in Request /\ Len(tokens) \in Nat
  BY DEF SessionInv, SessionTypeOK
<1>2. g \in TokenId \cup {None} /\ MaxTokens \in Nat
  BY SessionAssumption DEF TokenId, None
<1>3. new \in Request /\ new.kind = r.kind /\ new.token = r.token /\ new.grant = g
  BY <1>1, <1>2 DEF Request
<1>4. \A x \in wire : x.token \in 0 .. n /\ x.grant \in 0 .. n
  BY <1>1 DEF SessionInv, WireNamesTokens
<1>5. Answered(r, a, g) = (wire \ {r}) \cup {new}
  BY DEF Answered
<1> HIDE DEF new
<1> QED BY <1>1, <1>3, <1>4, <1>5

\* One token more.
LEMMA TokenIssued ==
  ASSUME TypeOK, SessionInv, NEW p \in Principal, Len(tokens) < MaxTokens,
         tokens' = Append(tokens, SignedToken(p))
  PROVE  /\ tokens' \in Seq(Token) /\ Len(tokens') = Len(tokens) + 1 /\ Len(tokens') <= MaxTokens
         /\ \A i \in DOMAIN tokens : i \in DOMAIN tokens' /\ tokens'[i] = tokens[i]
         /\ \A i \in DOMAIN tokens' \ DOMAIN tokens : tokens'[i] = SignedToken(p)
<1>1. SignedToken(p) \in Token
  BY DEF SignedToken, Token, AuthorizationFingerprint, LiveMemberships, MembershipsOf, TypeOK
<1>2. tokens \in Seq(Token) /\ MaxTokens \in Nat
  BY SessionAssumption DEF SessionInv, SessionTypeOK
<1> HIDE DEF SignedToken
<1> QED BY <1>1, <1>2

LEMMA ServerKeepsSessionInv ==
  ASSUME TypeOK, SessionInv, ServerStep
  PROVE  SessionInv'
<1>1. Len(tokens) \in Nat /\ MaxTokens \in Nat /\ Len(tokens) <= MaxTokens /\ None = 0
  BY SessionAssumption DEF SessionInv, SessionTypeOK, None
<1>2. ASSUME NEW r \in wire, NEW a \in {"none", "ok", "refused", "other"},
             wire' = Answered(r, a, None), UNCHANGED <<demo, tokens, page, sent>>
      PROVE  SessionInv'
  <2>1. /\ wire' \subseteq Request
        /\ \A x \in wire' : x.token \in 0 .. Len(tokens) /\ x.grant \in 0 .. Len(tokens)
        /\ (\E x \in wire : x.kind = "me") => \E x \in wire' : x.kind = "me"
    BY <1>1, <1>2, AnsweredFacts
  <2> QED
    BY <1>2, <2>1
    DEF SessionInv, SessionTypeOK, WireNamesTokens, PageUsesOwnToken, ExpiryEndsTab, page
<1>3. ASSUME NEW r \in wire, NEW p \in Principal, Login(r, p)
      PROVE  SessionInv'
  <2>1. /\ tokens' = Append(tokens, SignedToken(p)) /\ Len(tokens) < MaxTokens
        /\ wire' = Answered(r, "ok", Len(tokens) + 1)
        /\ UNCHANGED <<demo, tab, user, timer, boot, notice, sent>>
    BY <1>3 DEF Login, page
  <2>2. tokens' \in Seq(Token) /\ Len(tokens') = Len(tokens) + 1 /\ Len(tokens') <= MaxTokens
    BY <2>1, TokenIssued
  <2>3. Len(tokens') \in Nat /\ Len(tokens) + 1 \in 0 .. Len(tokens') /\ Len(tokens) <= Len(tokens')
    BY <1>1, <2>2
  <2>4. /\ wire' \subseteq Request
        /\ \A x \in wire' : x.token \in 0 .. Len(tokens') /\ x.grant \in 0 .. Len(tokens')
        /\ (\E x \in wire : x.kind = "me") => \E x \in wire' : x.kind = "me"
    BY <2>1, <2>2, <2>3, AnsweredFacts
  <2>5. {tab, user, timer}' \subseteq 0 .. Len(tokens')
    BY <1>1, <2>1, <2>2 DEF SessionInv, SessionTypeOK
  <2> QED
    BY <2>1, <2>2, <2>4, <2>5
    DEF SessionInv, SessionTypeOK, WireNamesTokens, PageUsesOwnToken, ExpiryEndsTab
<1>4. CASE RestartServer
  <2>1. /\ wire' = {r \in wire : r.answer # "none"}
                     \cup {[r EXCEPT !.answer = "other"] : r \in {x \in wire : x.answer = "none"}}
        /\ UNCHANGED <<demo, tokens, tab, user, timer, boot, notice, sent>>
    BY <1>4 DEF RestartServer, page
  <2>2. \A r \in wire : /\ [r EXCEPT !.answer = "other"] \in Request
                        /\ [r EXCEPT !.answer = "other"].kind = r.kind
                        /\ [r EXCEPT !.answer = "other"].token = r.token
                        /\ [r EXCEPT !.answer = "other"].grant = r.grant
    BY DEF SessionInv, SessionTypeOK, Request
  <2>3. wire' \subseteq Request
    BY <2>1, <2>2 DEF SessionInv, SessionTypeOK
  <2>4. WireNamesTokens'
    BY <2>1, <2>2 DEF SessionInv, WireNamesTokens
  <2>5. (\E x \in wire : x.kind = "me") => \E x \in wire' : x.kind = "me"
    <3> SUFFICES ASSUME NEW x \in wire, x.kind = "me" PROVE \E y \in wire' : y.kind = "me"
      OBVIOUS
    <3>1. CASE x.answer = "none"
      <4>1. [x EXCEPT !.answer = "other"] \in wire'
        BY <2>1, <3>1
      <4> QED BY <2>2, <4>1
    <3>2. CASE x.answer # "none"
      BY <2>1, <3>2
    <3> QED BY <3>1, <3>2
  <2> QED
    BY <2>1, <2>3, <2>4, <2>5 DEF SessionInv, SessionTypeOK, PageUsesOwnToken, ExpiryEndsTab
<1>5. ASSUME UNCHANGED session
      PROVE  SessionInv'
  BY <1>5
  DEF session, page, SessionInv, SessionTypeOK, WireNamesTokens, PageUsesOwnToken, ExpiryEndsTab
<1>6. ASSUME NEW r \in wire, Serve(r) \/ LoginFails(r) \/ AnswerError(r)
      PROVE  SessionInv'
  <2>1. /\ \E a \in {"none", "ok", "refused", "other"} : wire' = Answered(r, a, None)
        /\ UNCHANGED <<demo, tokens, page, sent>>
    BY <1>6 DEF Serve, LoginFails, AnswerError
  <2> QED BY <1>2, <2>1
<1>7. ASSUME NEW actor \in Principal, ResetStore(actor)
      PROVE  SessionInv'
  BY <1>5, <1>7 DEF ResetStore
<1>8. CASE StoreStep
  BY <1>5, <1>8 DEF StoreStep
<1> QED BY <1>3, <1>4, <1>6, <1>7, <1>8 DEF ServerStep

\* The requests a page sends and the ones it waits for no longer.
LEMMA SentRequest ==
  ASSUME SessionInv, sent < MaxRequests, NEW kind \in {"me", "view", "login"},
         NEW n \in Nat, NEW i \in 0 .. n, n <= MaxTokens
  PROVE  /\ sent + 1 \in 0 .. MaxRequests
         /\ [id |-> sent + 1, kind |-> kind, token |-> i, answer |-> "none", grant |-> None] \in Request
<1>1. sent \in 0 .. MaxRequests /\ MaxTokens \in Nat /\ MaxRequests \in Nat
  BY SessionAssumption DEF SessionInv, SessionTypeOK
<1> QED BY <1>1 DEF Request, TokenId, None

\* Loading a page, with the tokens tokens' issued.
LEMMA PageLoaded ==
  ASSUME SessionInv, tokens' \in Seq(Token), Len(tokens') <= MaxTokens,
         NEW i \in 0 .. Len(tokens'), LoadPage(i), UNCHANGED demo
  PROVE  SessionInv'
<1>1. Len(tokens') \in Nat /\ None = 0 /\ sent \in 0 .. MaxRequests
  BY DEF None, SessionInv, SessionTypeOK
<1>2. /\ tab' = i /\ user' = None /\ timer' = None /\ notice' = "none" /\ boot' = (i # None)
  BY DEF LoadPage
<1>3. /\ wire' \subseteq Request /\ sent' \in 0 .. MaxRequests
      /\ \A r \in wire' : r.token \in 0 .. Len(tokens') /\ r.grant \in 0 .. Len(tokens')
      /\ i # None => \E r \in wire' : r.kind = "me"
  <2>1. CASE i = None
    BY <1>1, <2>1 DEF LoadPage
  <2>2. CASE i # None
    <3> DEFINE r == [id |-> sent + 1, kind |-> "me", token |-> i, answer |-> "none", grant |-> None]
    <3>1. sent < MaxRequests /\ sent' = sent + 1 /\ wire' = {r}
      BY <2>2 DEF LoadPage
    <3>2. r \in Request /\ sent + 1 \in 0 .. MaxRequests
      BY <1>1, <3>1, SentRequest
    <3>3. r.token = i /\ r.grant = 0 /\ r.kind = "me"
      BY <1>1
    <3> HIDE DEF r
    <3> QED BY <1>1, <3>1, <3>2, <3>3
  <2> QED BY <2>1, <2>2
<1>4. {tab, user, timer}' \subseteq 0 .. Len(tokens')
  BY <1>1, <1>2
<1> QED
  BY <1>2, <1>3, <1>4
  DEF SessionInv, SessionTypeOK, WireNamesTokens, PageUsesOwnToken, ExpiryEndsTab

LEMMA TabKeepsSessionInv ==
  ASSUME TypeOK, SessionInv, TabStep
  PROVE  SessionInv'
<1>1. /\ tokens \in Seq(Token) /\ Len(tokens) \in Nat /\ Len(tokens) <= MaxTokens /\ None = 0
      /\ tab \in 0 .. Len(tokens) /\ user \in 0 .. Len(tokens) /\ timer \in 0 .. Len(tokens)
      /\ wire \subseteq Request
  BY DEF SessionInv, SessionTypeOK, None
<1>2. CASE Reload
  BY <1>1, <1>2, PageLoaded DEF Reload
<1>3. ASSUME NEW p \in Principal, BrokerSignIn(p)
      PROVE  SessionInv'
  <2>1. /\ tokens' \in Seq(Token) /\ Len(tokens') = Len(tokens) + 1 /\ Len(tokens') <= MaxTokens
        /\ LoadPage(Len(tokens) + 1) /\ UNCHANGED demo
    BY <1>3, TokenIssued DEF BrokerSignIn
  <2>2. Len(tokens) + 1 \in 0 .. Len(tokens')
    BY <1>1, <2>1
  <2> QED BY <2>1, <2>2, PageLoaded
<1>4. ASSUME NEW kind \in {"view", "login"}, Send(kind), UNCHANGED <<demo, tokens, page>>
      PROVE  SessionInv'
  <2> DEFINE r == [id |-> sent + 1, kind |-> kind, token |-> tab, answer |-> "none", grant |-> None]
  <2>1. sent < MaxRequests /\ sent' = sent + 1 /\ wire' = wire \cup {r}
    BY <1>4 DEF Send
  <2>2. r \in Request /\ sent + 1 \in 0 .. MaxRequests
    BY <1>1, <2>1, SentRequest
  <2>3. r.token = tab /\ r.grant = 0
    BY <1>1
  <2> HIDE DEF r
  <2>4. wire' \subseteq Request /\ WireNamesTokens'
    BY <1>1, <1>4, <2>1, <2>2, <2>3 DEF SessionInv, WireNamesTokens
  <2> QED
    BY <1>4, <2>1, <2>2, <2>4 DEF page, SessionInv, SessionTypeOK, PageUsesOwnToken, ExpiryEndsTab
<1>5. CASE SignOut \/ TimerFires
  <2>1. {tab, user, timer}' \subseteq 0 .. Len(tokens')
    BY <1>1, <1>5 DEF SignOut, TimerFires, ShowLogin
  <2> QED BY <1>5, <2>1
      DEF SignOut, TimerFires, ShowLogin, SessionInv, SessionTypeOK, WireNamesTokens,
          PageUsesOwnToken, ExpiryEndsTab
<1>6. ASSUME NEW r \in wire, wire' = wire \ {r}, UNCHANGED <<demo, tokens, sent>>,
             \/ UNCHANGED page /\ r.kind # "me"
             \/ \E i \in 0 .. Len(tokens) : SignIn(i)
             \/ tab' = None /\ ShowLogin("expired")
             \/ tab' = None /\ ShowLogin(notice)
             \/ UNCHANGED tab /\ ShowLogin("unavailable")
      PROVE  SessionInv'
  <2>1. wire' \subseteq Request /\ WireNamesTokens'
    BY <1>6 DEF SessionInv, SessionTypeOK, WireNamesTokens
  <2>2. CASE UNCHANGED page /\ r.kind # "me"
    BY <1>6, <2>1, <2>2
    DEF page, SessionInv, SessionTypeOK, PageUsesOwnToken, ExpiryEndsTab
  <2>3. CASE \E i \in 0 .. Len(tokens) : SignIn(i)
    BY <1>1, <1>6, <2>1, <2>3
    DEF SignIn, SessionInv, SessionTypeOK, PageUsesOwnToken, ExpiryEndsTab
  <2>4. CASE tab' = None /\ (ShowLogin("expired") \/ ShowLogin(notice))
    <3>1. {tab, user, timer}' \subseteq 0 .. Len(tokens')
      BY <1>1, <1>6, <2>4 DEF ShowLogin
    <3> QED
      BY <1>6, <2>1, <2>4, <3>1
      DEF ShowLogin, SessionInv, SessionTypeOK, PageUsesOwnToken, ExpiryEndsTab
  <2>5. CASE UNCHANGED tab /\ ShowLogin("unavailable")
    <3>1. {tab, user, timer}' \subseteq 0 .. Len(tokens')
      BY <1>1, <1>6, <2>5 DEF ShowLogin
    <3> QED
      BY <1>6, <2>1, <2>5, <3>1
      DEF ShowLogin, SessionInv, SessionTypeOK, PageUsesOwnToken, ExpiryEndsTab
  <2> QED BY <1>6, <2>2, <2>3, <2>4, <2>5
<1>7. ASSUME NEW r \in wire, Receive(r) \/ GiveUpWaiting(r)
      PROVE  SessionInv'
  <2>1. r.kind \in {"me", "view", "login"} /\ r.token \in 0 .. Len(tokens) /\ r.grant \in 0 .. Len(tokens)
    BY <1>1 DEF Request, SessionInv, WireNamesTokens
  <2>2. wire' = wire \ {r} /\ UNCHANGED <<demo, tokens, sent>>
    BY <1>7 DEF Receive, GiveUpWaiting
  <2>3. CASE Succeed(r)
    BY <1>6, <2>1, <2>2, <2>3 DEF Succeed
  <2>4. CASE Refuse(r)
    BY <1>6, <2>1, <2>2, <2>4 DEF Refuse
  <2>5. CASE Fail(r)
    BY <1>6, <2>1, <2>2, <2>5 DEF Fail
  <2> QED BY <1>7, <2>3, <2>4, <2>5 DEF Receive, GiveUpWaiting
<1> QED BY <1>2, <1>3, <1>4, <1>5, <1>7 DEF TabStep, SubmitLogin, RequestView
-----------------------------------------------------------------------------
(***************************************************************************)
(* The store under the sessions.  A restart of a demo puts back seats of   *)
(* the seed under their old assignments; that clashes with nothing, as an  *)
(* assignment of the seed belongs to its member of the seed for good.      *)
(***************************************************************************)

SeedAssignmentsKept ==
  /\ Cardinality(SeedMembership) < nextAssignment
  /\ \A m \in memberships : m.assignment <= Cardinality(SeedMembership) => m \in SeedMembership

NoGrants == jit = << >>

SessionStoreInv == StoreInv /\ SeedAssignmentsKept /\ NoGrants

LEMMA SeedFacts ==
  /\ Cardinality(SeedMembership) \in Nat
  /\ SeedMembership \subseteq Membership
  /\ \A m \in SeedMembership : m.assignment <= Cardinality(SeedMembership)
  /\ DemoSeat \subseteq SeedMembership
  /\ SeedBinding \subseteq Capsule \X Contract
  /\ \A b \in SeedBinding : b[1].managed = FALSE
<1>1. Cardinality(SeedMembership) \in Nat
  BY SeedMembershipAssumption, FS_CardinalityType
<1>2. SeedMembership \subseteq Membership
  BY SeedMembershipAssumption DEF Membership, Capsule, Persona
<1>3. \A m \in SeedMembership : m.assignment <= Cardinality(SeedMembership)
  BY <1>1, SeedMembershipAssumption
<1>4. SeedBinding \subseteq Capsule \X Contract /\ \A b \in SeedBinding : b[1].managed = FALSE
  BY SeedBindingAssumption, ObjectAssumption DEF Capsule, Contract
<1> QED BY <1>1, <1>2, <1>3, <1>4, SessionAssumption

LEMMA InitSessionStoreInv == SessionInit => SessionStoreInv
<1> SUFFICES ASSUME SessionInit PROVE SessionStoreInv
  OBVIOUS
<1>1. Init /\ StoreInv
  BY InitStoreInv DEF SessionInit
<1> QED
  BY <1>1, SeedFacts DEF Init, SessionStoreInv, SeedAssignmentsKept, NoGrants

\* Without grants, a store is restorable when its memberships are.
LEMMA MembersAreEnough ==
  ASSUME TypeOK', MembershipPart', NoGrants'
  PROVE  StoreInv'
<1>1. GrantPart'
  BY DEF GrantPart, OpenGrantsAnchored, OpenGrantsHeld, ApprovedGrantsExpire,
         GrantsNeedApproval, NoGrants
<1>2. UniqueMembership' /\ UniqueAssignment' /\ AdminSeats' /\ AssignmentsFresh' /\ RoleBindingsStanding'
  BY DEF MembershipPart
<1> QED BY <1>1, <1>2 DEF GrantPart, StoreInv, Restorable

LEMMA ReconciledMembers ==
  ASSUME SessionStoreInv, NEW ms, ms = Reconciled
  PROVE  /\ ms \subseteq Membership
         /\ \A m \in ms : m \in memberships \/ m \in SeedMembership
         /\ \A m, n \in ms : m.principal = n.principal /\ m.capsule = n.capsule => m = n
         /\ \A m, n \in ms : m.assignment = n.assignment => m = n
<1>1. memberships \subseteq Membership
  BY DEF SessionStoreInv, StoreInv, TypeOK
<1>2. \A m \in ms :
        \/ m \in memberships
        \/ /\ m \in SeedMembership
           /\ \A x \in memberships : x.principal # m.principal \/ x.capsule # m.capsule
  BY SeedFacts DEF Reconciled
<1>3. \A m, n \in SeedMembership :
        \/ m = n
        \/ m.assignment # n.assignment /\ (m.principal # n.principal \/ m.capsule # n.capsule)
  BY SeedMembershipAssumption
<1>4. \A m, n \in ms : m.principal = n.principal /\ m.capsule = n.capsule => m = n
  BY <1>2, <1>3 DEF SessionStoreInv, StoreInv, Restorable, UniqueMembership
<1>5. \A m \in memberships, n \in SeedMembership : m.assignment = n.assignment => m = n
  BY <1>3, SeedFacts DEF SessionStoreInv, SeedAssignmentsKept
<1>6. \A m, n \in ms : m.assignment = n.assignment => m = n
  BY <1>2, <1>3, <1>5 DEF SessionStoreInv, StoreInv, Restorable, UniqueAssignment
<1> QED BY <1>1, <1>2, <1>4, <1>6, SeedFacts

\* Seats of the seed beside the members, or instead of them.
LEMMA SeatsPutBack ==
  ASSUME SessionStoreInv, UNCHANGED <<now, nextAssignment>>, NoGrants',
         memberships' \subseteq Membership,
         capsuleState' \in [Capsule -> {"absent", "active", "inactive"}],
         bindings' \subseteq bindings \cup SeedBinding,
         \A m \in memberships' : m \in memberships \/ m \in SeedMembership,
         UniqueMembership', UniqueAssignment'
  PROVE  SessionStoreInv'
<1>1. nextAssignment \in Nat /\ now \in Time /\ Cardinality(SeedMembership) < nextAssignment
  BY DEF SessionStoreInv, StoreInv, TypeOK, SeedAssignmentsKept
<1>2. TypeOK'
  <2>1. bindings' \subseteq Capsule \X Contract
    BY SeedFacts DEF SessionStoreInv, StoreInv, TypeOK
  <2>2. jit' \in Seq(Grant) /\ DOMAIN jit' = {}
    BY DEF NoGrants
  <2> QED BY <1>1, <2>1, <2>2 DEF TypeOK
<1>3. AdminSeats'
  BY SeedMembershipAssumption DEF SessionStoreInv, StoreInv, Restorable, AdminSeats
<1>4. AssignmentsFresh'
  <2>1. \A m \in SeedMembership : m.assignment < nextAssignment
    BY <1>1, SeedFacts DEF Membership
  <2> QED BY <2>1 DEF SessionStoreInv, StoreInv, AssignmentsFresh
<1>5. RoleBindingsStanding'
  BY SeedFacts DEF SessionStoreInv, StoreInv, RoleBindingsStanding
<1>6. SeedAssignmentsKept'
  BY <1>1 DEF SessionStoreInv, SeedAssignmentsKept
<1>7. StoreInv'
  BY <1>2, <1>3, <1>4, <1>5, MembersAreEnough DEF MembershipPart
<1> QED BY <1>6, <1>7 DEF SessionStoreInv

\* What a store operation does to the memberships: it drops some, or it adds
\* one under the next assignment.
MembersMove ==
  \A m \in memberships' :
    m \in memberships \/ (m.assignment = nextAssignment /\ nextAssignment' = nextAssignment + 1)

LEMMA StoreStepFacts ==
  ASSUME SessionStoreInv, StoreStep
  PROVE  MembersMove /\ NoGrants' /\ nextAssignment' \in {nextAssignment, nextAssignment + 1}
<1> USE DEF NoGrants, MembersMove
<1>1. jit = << >>
  BY DEF SessionStoreInv
<1>2. \A S : ExpireOpen(S) = << >>
  <2> SUFFICES ASSUME NEW S PROVE ExpireOpen(S) = << >>
    OBVIOUS
  <2>1. DOMAIN jit = {} /\ DOMAIN ExpireOpen(S) = DOMAIN jit
    BY <1>1 DEF ExpireOpen
  <2>2. ExpireOpen(S) \in Seq(Grant)
    BY ExpireOpenFacts DEF SessionStoreInv, StoreInv
  <2> QED BY <2>1, <2>2
<1>3. ASSUME NEW actor \in Principal, NEW p \in Principal, AddMembership(actor, p)
      PROVE  MembersMove /\ NoGrants' /\ nextAssignment' \in {nextAssignment, nextAssignment + 1}
  BY <1>1, <1>3 DEF AddMembership
<1>4. ASSUME NEW m \in memberships, RemoveMembershipUnchecked(m)
      PROVE  MembersMove /\ NoGrants' /\ nextAssignment' \in {nextAssignment, nextAssignment + 1}
  BY <1>2, <1>4 DEF RemoveMembershipUnchecked
<1>5. ASSUME NEW actor \in Principal, NEW c \in Capsule, NEW cascade \in BOOLEAN,
             OffboardCapsule(actor, c, cascade)
      PROVE  MembersMove /\ NoGrants' /\ nextAssignment' \in {nextAssignment, nextAssignment + 1}
  BY <1>2, <1>5 DEF OffboardCapsule
<1>6. ASSUME NEW t \in Time, AdjustClock(t)
      PROVE  MembersMove /\ NoGrants' /\ nextAssignment' \in {nextAssignment, nextAssignment + 1}
  BY <1>1, <1>6 DEF AdjustClock
<1> QED
  BY <1>3, <1>4, <1>5, <1>6
  DEF StoreStep, MembershipStep, ClockStep, RemoveMembership, RevokeMembershipForRecertification

LEMMA NextSessionStoreInv == SessionStoreInv /\ [SessionNext]_sessionVars => SessionStoreInv'
<1> SUFFICES ASSUME SessionStoreInv, [SessionNext]_sessionVars PROVE SessionStoreInv'
  OBVIOUS
<1>1. CASE RestartServer
  <2>1. \/ memberships' = memberships
        \/ memberships' = Reconciled
    BY <1>1 DEF RestartServer
  <2>2. /\ memberships' \subseteq Membership
        /\ \A m \in memberships' : m \in memberships \/ m \in SeedMembership
        /\ UniqueMembership' /\ UniqueAssignment'
    BY <2>1, ReconciledMembers
    DEF UniqueMembership, UniqueAssignment, SessionStoreInv, StoreInv, Restorable, TypeOK
  <2>3. /\ UNCHANGED <<now, capsuleState, jit, nextAssignment>>
        /\ bindings' \subseteq bindings \cup SeedBinding
    BY <1>1, SessionAssumption DEF RestartServer
  <2>4. NoGrants' /\ capsuleState' \in [Capsule -> {"absent", "active", "inactive"}]
    BY <2>3 DEF SessionStoreInv, StoreInv, TypeOK, NoGrants
  <2> QED BY <2>2, <2>3, <2>4, SeatsPutBack
<1>2. ASSUME NEW actor \in Principal, ResetStore(actor)
      PROVE  SessionStoreInv'
  <2>1. /\ memberships' = SeedMembership /\ bindings' = SeedBinding /\ NoGrants'
        /\ capsuleState' \in [Capsule -> {"absent", "active", "inactive"}]
        /\ UNCHANGED <<now, nextAssignment>>
    BY <1>2 DEF ResetStore, NoGrants
  <2>2. UniqueMembership' /\ UniqueAssignment'
    BY <2>1, SeedMembershipAssumption DEF UniqueMembership, UniqueAssignment
  <2> QED BY <2>1, <2>2, SeedFacts, SeatsPutBack
<1>3. CASE StoreStep
  <2>1. StoreInv'
    BY <1>3, NextStoreInv DEF SessionStoreInv, StoreStep, Next
  <2>2. MembersMove /\ NoGrants' /\ nextAssignment' \in {nextAssignment, nextAssignment + 1}
    BY <1>3, StoreStepFacts
  <2>3. nextAssignment \in Nat /\ Cardinality(SeedMembership) \in Nat
    BY SeedFacts DEF SessionStoreInv, StoreInv, TypeOK
  <2>4. SeedAssignmentsKept'
    BY <2>2, <2>3 DEF SessionStoreInv, SeedAssignmentsKept, MembersMove
  <2> QED BY <2>1, <2>2, <2>4 DEF SessionStoreInv
<1>4. CASE UNCHANGED vars
  <2>1. StoreInv'
    BY <1>4, NextStoreInv DEF SessionStoreInv
  <2> QED BY <1>4, <2>1 DEF SessionStoreInv, SeedAssignmentsKept, NoGrants, vars
<1>5. SessionNext => RestartServer \/ (\E actor \in Principal : ResetStore(actor))
                       \/ StoreStep \/ UNCHANGED vars
  BY DEF SessionNext, ServerStep, TabStep, Serve, Login, LoginFails, AnswerError, Reload,
         SubmitLogin, RequestView, SignOut, TimerFires, BrokerSignIn, Receive, GiveUpWaiting
<1> QED BY <1>1, <1>2, <1>3, <1>4, <1>5 DEF sessionVars
-----------------------------------------------------------------------------
(***************************************************************************)
(* The scopes of tokens name only assignments that were made.              *)
(***************************************************************************)

ScopesIssued == \A i \in DOMAIN tokens : \A m \in tokens[i].scope : m.assignment < nextAssignment

LEMMA TokensMove ==
  ASSUME TypeOK, SessionInv, [SessionNext]_sessionVars
  PROVE  /\ \A i \in DOMAIN tokens : i \in DOMAIN tokens' /\ tokens'[i] = tokens[i]
         /\ \A i \in DOMAIN tokens' \ DOMAIN tokens :
              \E p \in Principal : tokens'[i] = SignedToken(p)
<1>1. CASE UNCHANGED tokens
  BY <1>1
<1>2. ASSUME NEW p \in Principal, Len(tokens) < MaxTokens, tokens' = Append(tokens, SignedToken(p))
      PROVE  /\ \A i \in DOMAIN tokens : i \in DOMAIN tokens' /\ tokens'[i] = tokens[i]
             /\ \A i \in DOMAIN tokens' \ DOMAIN tokens : tokens'[i] = SignedToken(p)
  BY <1>2, TokenIssued
<1>3. \/ UNCHANGED tokens
      \/ \E p \in Principal : Len(tokens) < MaxTokens /\ tokens' = Append(tokens, SignedToken(p))
  BY DEF SessionNext, ServerStep, TabStep, StoreStep, Serve, Login, LoginFails, AnswerError,
         RestartServer, ResetStore, Reload, SubmitLogin, RequestView, SignOut, TimerFires,
         BrokerSignIn, Receive, GiveUpWaiting, session, sessionVars
<1> QED BY <1>1, <1>2, <1>3

LEMMA NextScopesIssued ==
  SessionInv /\ SessionStoreInv /\ ScopesIssued /\ [SessionNext]_sessionVars => ScopesIssued'
<1> SUFFICES ASSUME SessionInv, SessionStoreInv, ScopesIssued, [SessionNext]_sessionVars,
                    NEW i \in DOMAIN tokens', NEW m \in tokens'[i].scope
             PROVE  m.assignment < nextAssignment'
  BY DEF ScopesIssued
<1>1. TypeOK /\ AssignmentsFresh /\ nextAssignment \in Nat /\ memberships \subseteq Membership
  BY DEF SessionStoreInv, StoreInv, TypeOK
<1>2. nextAssignment' \in {nextAssignment, nextAssignment + 1}
  <2>1. CASE StoreStep
    BY <2>1, StoreStepFacts
  <2>2. CASE ~ StoreStep
    BY <2>2
    DEF SessionNext, ServerStep, TabStep, Serve, Login, LoginFails, AnswerError, RestartServer,
        ResetStore, Reload, SubmitLogin, RequestView, SignOut, TimerFires, BrokerSignIn, Receive,
        GiveUpWaiting, sessionVars, vars
  <2> QED BY <2>1, <2>2
<1>3. m.assignment \in Nat /\ m.assignment < nextAssignment
  <2>1. CASE i \in DOMAIN tokens
    <3>1. tokens[i] \in Token /\ m \in tokens[i].scope
      BY <1>1, <2>1, TokensMove DEF SessionInv, SessionTypeOK
    <3> QED BY <2>1, <3>1 DEF ScopesIssued, Token, Membership
  <2>2. CASE i \notin DOMAIN tokens
    <3>1. PICK p \in Principal : tokens'[i] = SignedToken(p)
      BY <1>1, <2>2, TokensMove
    <3>2. m \in memberships
      BY <3>1 DEF SignedToken, AuthorizationFingerprint, LiveMemberships, MembershipsOf
    <3> QED BY <1>1, <3>2 DEF AssignmentsFresh, Membership
  <2> QED BY <2>1, <2>2
<1> QED BY <1>1, <1>2, <1>3

-----------------------------------------------------------------------------
(***************************************************************************)
(* The theorems.                                                           *)
(***************************************************************************)

LEMMA NextSessionInv ==
  TypeOK /\ SessionInv /\ [SessionNext]_sessionVars => SessionInv'
<1> SUFFICES ASSUME TypeOK, SessionInv, [SessionNext]_sessionVars PROVE SessionInv'
  OBVIOUS
<1>1. CASE UNCHANGED sessionVars
  BY <1>1
  DEF sessionVars, session, page, SessionInv, SessionTypeOK, WireNamesTokens, PageUsesOwnToken,
      ExpiryEndsTab
<1> QED BY <1>1, ServerKeepsSessionInv, TabKeepsSessionInv DEF SessionNext

\* The store, the tab, the requests between the two and what tokens name stay
\* as described, whatever is lost, delayed or restarted.
THEOREM SessionInvariant == SessionSpec => [](SessionInv /\ SessionStoreInv /\ ScopesIssued)
<1>1. SessionInit => SessionInv /\ SessionStoreInv /\ ScopesIssued
  BY InitSessionInv, InitSessionStoreInv DEF SessionInit, ScopesIssued
<1>2. SessionStoreInv => TypeOK
  BY DEF SessionStoreInv, StoreInv
<1> QED
  BY <1>1, <1>2, NextSessionInv, NextSessionStoreInv, NextScopesIssued, PTL DEF SessionSpec

\* The variables have their types, a restoring page has asked who it is and a
\* page nobody is signed in to runs no timer.
THEOREM SessionTypeCorrect == SessionSpec => []SessionTypeOK
<1>1. SessionInv => SessionTypeOK
  BY DEF SessionInv
<1> QED BY <1>1, SessionInvariant, PTL

\* The page of one account never sends the token of another, and the timer
\* that will end it is the one of its own token (App in App.tsx).
THEOREM OwnTokenAlways == SessionSpec => []PageUsesOwnToken
<1>1. SessionInv => PageUsesOwnToken
  BY DEF SessionInv
<1> QED BY <1>1, SessionInvariant, PTL

\* A demo whose seed is put back at every restart, and reset at any time,
\* passes the relationship checks of the next restart all the same
\* (reconcileDemoSeed in cca-core, the reset route in app.ts).
THEOREM DemoStaysRestorable == SessionSpec => []Restorable
<1>1. SessionStoreInv => Restorable
  BY DEF SessionStoreInv, StoreInv
<1> QED BY <1>1, SessionInvariant, PTL

LEMMA ExpiryStep ==
  ASSUME SessionInv, [SessionNext]_sessionVars, tab # None, tab' = None, notice' = "expired"
  PROVE  \/ wire' = wire /\ timer = tab
         \/ \E r \in wire \ wire' : r.answer = "refused" /\ r.token = tab
<1>1. notice # "expired"
  BY DEF SessionInv, ExpiryEndsTab
<1>2. CASE TimerFires
  <2>1. timer # None /\ wire' = wire
    BY <1>2 DEF TimerFires
  <2>2. timer = tab
    BY <2>1 DEF SessionInv, SessionTypeOK, PageUsesOwnToken
  <2> QED BY <2>1, <2>2
<1>3. ASSUME NEW r \in wire, Receive(r)
      PROVE  r \in wire \ wire' /\ r.answer = "refused" /\ r.token = tab
  <2>1. wire' = wire \ {r}
    BY <1>3 DEF Receive
  <2>2. r.kind \in {"me", "view", "login"}
    BY DEF SessionInv, SessionTypeOK, Request
  <2>3. Refuse(r) /\ RefusalOfCurrent(r)
    BY <1>1, <1>3, <2>2 DEF Receive, Succeed, Refuse, Fail, SignIn, ShowLogin, page
  <2> QED BY <2>1, <2>3 DEF RefusalOfCurrent
<1>4. TimerFires \/ \E r \in wire : Receive(r)
  <2>1. UNCHANGED <<tab, notice>> \/ notice' # "expired" \/ tab' # None
          \/ TimerFires \/ \E r \in wire : Receive(r)
    BY DEF SessionNext, ServerStep, TabStep, StoreStep, Serve, Login, LoginFails, AnswerError,
           RestartServer, ResetStore, Reload, LoadPage, SubmitLogin, RequestView, SignOut,
           BrokerSignIn, GiveUpWaiting, Fail, ShowLogin, session, page, sessionVars
  <2> QED BY <1>1, <2>1
<1> QED BY <1>2, <1>3, <1>4

\* A delayed refusal of a request that carried an earlier token, or an earlier
\* account's timer, never takes away the token of a newer login (request in
\* api.ts).
THEOREM NewerLoginAlwaysSurvives == SessionSpec => NewerLoginSurvives
<1>1. SessionInv /\ [SessionNext]_sessionVars =>
        [tab # None /\ tab' = None /\ notice' = "expired" =>
           \/ wire' = wire /\ timer = tab
           \/ \E r \in wire \ wire' : r.answer = "refused" /\ r.token = tab]_sessionVars
  BY ExpiryStep
<1> QED BY <1>1, SessionInvariant, PTL DEF SessionSpec, NewerLoginSurvives

\* In production a member comes back only under an assignment nobody had.
LEMMA LapsedStep ==
  ASSUME SessionInv, SessionStoreInv, ScopesIssued, [SessionNext]_sessionVars,
         ~ demo, NEW i \in DOMAIN tokens, Lapsed(i)
  PROVE  ~ Accepts(i)'
<1>1. TypeOK /\ memberships \subseteq Membership /\ nextAssignment \in Nat
  BY DEF SessionStoreInv, StoreInv, TypeOK
<1>2. PICK m \in tokens[i].scope : m.assignment \notin Held
  BY DEF Lapsed
<1>3. m.assignment < nextAssignment /\ m.assignment \in Nat
  <2>1. tokens[i] \in Token
    BY DEF SessionInv, SessionTypeOK
  <2> QED BY <2>1 DEF ScopesIssued, Token, Membership
<1>4. \A x \in memberships' : x \in memberships \/ x.assignment = nextAssignment
  <2>1. CASE StoreStep
    BY <2>1, StoreStepFacts DEF MembersMove
  <2>2. CASE ~ StoreStep
    <3>1. UNCHANGED memberships
      BY <2>2
      DEF SessionNext, ServerStep, TabStep, Serve, Login, LoginFails, AnswerError, RestartServer,
          ResetStore, Reload, SubmitLogin, RequestView, SignOut, TimerFires, BrokerSignIn,
          Receive, GiveUpWaiting, sessionVars, vars
    <3> QED BY <3>1
  <2> QED BY <2>1, <2>2
<1>5. m \notin memberships'
  BY <1>2, <1>3, <1>4 DEF Held
<1>6. tokens'[i] = tokens[i]
  BY <1>1, TokensMove
<1>7. ASSUME MatchesAssignments(tokens[i])' PROVE FALSE
  <2>1. tokens'[i].scope \subseteq memberships'
    BY <1>7 DEF MatchesAssignments, AuthorizationFingerprint, LiveMemberships, MembershipsOf
  <2> QED BY <1>2, <1>5, <1>6, <2>1
<1> QED BY <1>7 DEF Accepts

\* In production, a token one of whose assignments was removed is never
\* accepted again, even when the same capsule is granted again
\* (authorizationFingerprintFor in app.ts).
THEOREM LapsedTokensAlwaysRefused == SessionSpec => LapsedTokensStayRefusedInProduction
<1> DEFINE Refused(i) == Lapsed(i) => ~ Accepts(i)'
<1>1. SessionInv /\ SessionStoreInv /\ ScopesIssued /\ [SessionNext]_sessionVars =>
        [~ demo => \A i \in DOMAIN tokens : Refused(i)]_sessionVars
  BY LapsedStep
<1> QED BY <1>1, SessionInvariant, PTL DEF SessionSpec, LapsedTokensStayRefusedInProduction
===============================================================================
