-------------------------------- MODULE Sessions --------------------------------
(***************************************************************************)
(* Sessions: the tokens that name the exact assignments of their bearer    *)
(* (apps/api/src/jwt.ts, authenticatePrincipal and login in app.ts), one   *)
(* browser tab that holds at most one of them (apps/web/src/App.tsx, the   *)
(* request function of api.ts), and the requests and answers between the   *)
(* two, which may be lost or arrive in any order.  The store changes under *)
(* them as in AccessStore; in a demo a restart puts back missing seats of  *)
(* the seed, and an administrator may reset everything.                    *)
(*                                                                         *)
(* The server's clock is now, which may jump.  The tab measures the life   *)
(* of a token with a timer of its own, so that timer fires at any time     *)
(* after it is set.                                                        *)
(***************************************************************************)
EXTENDS AccessStore

CONSTANTS
  DemoSeat,      \* seed memberships that reconcileDemoSeed puts back
  DemoBinding,   \* and bindings
  TokenLife,     \* the ttl of signAccessToken
  MaxTokens,     \* bound on the tokens issued
  MaxRequests    \* bound on the requests of the tab

VARIABLES
  demo,      \* the API runs in mode demo, and else in production
  tokens,    \* every token issued; a token is known by its place (its jti)
  tab,       \* the token in sessionStorage, or none
  user,      \* the token the signed-in page was shown for, or none
  timer,     \* the token whose expiry timer runs, or none
  boot,      \* the page is restoring the session
  notice,    \* what the page tells about the session
  wire,      \* requests of the tab that have not ended
  sent       \* requests of the tab so far

page == <<tab, user, timer, boot, notice>>
session == <<demo, tokens, page, wire, sent>>
sessionVars == <<vars, session>>

None == 0
TokenId == 1 .. MaxTokens

Token == [sub : Principal, scope : SUBSET Membership, issuedAt : Time]

\* The answer of a login names the token it grants.
Request ==
  [id : 1 .. MaxRequests, kind : {"me", "view", "login"}, token : TokenId \cup {None},
   answer : {"none", "ok", "refused", "other"}, grant : TokenId \cup {None}]

ASSUME SessionAssumption ==
  /\ DemoSeat \subseteq SeedMembership /\ DemoBinding \subseteq SeedBinding
  /\ TokenLife \in Nat \ {0} /\ MaxTokens \in Nat /\ MaxRequests \in Nat

-----------------------------------------------------------------------------
\* The server.

\* authorizationFingerprintFor: a hash of the live assignments, so the scope
\* itself; the names of the capsules are part of it.
AuthorizationFingerprint(p) == LiveMemberships(p)

SignedToken(p) == [sub |-> p, scope |-> AuthorizationFingerprint(p), issuedAt |-> now]

\* verifyAccessToken, with the skew below the unit of the model.
Current(token) == token.issuedAt <= now /\ now < token.issuedAt + TokenLife

\* Mutant: the session is bound to the names of the capsules.
CapsuleNamesMatch(token) ==
  {m.capsule : m \in token.scope} = {m.capsule : m \in LiveMemberships(token.sub)}

MatchesAssignments(token) == token.scope = AuthorizationFingerprint(token.sub)

Accepts(i) ==
  /\ Current(tokens[i])
  /\ Enabled(tokens[i].sub)
  /\ MatchesAssignments(tokens[i])

Answered(r, answer, grant) == (wire \ {r}) \cup {[r EXCEPT !.answer = answer, !.grant = grant]}

\* authenticate, and whatever the handler then answers.
Serve(r) ==
  /\ r.kind # "login" /\ r.answer = "none"
  /\ wire' = Answered(r, IF r.token # None /\ Accepts(r.token) THEN "ok" ELSE "refused", None)
  /\ UNCHANGED <<vars, demo, tokens, page, sent>>

Login(r, p) ==
  /\ demo
  /\ r.kind = "login" /\ r.answer = "none"
  /\ Enabled(p)
  /\ Len(tokens) < MaxTokens
  /\ tokens' = Append(tokens, SignedToken(p))
  /\ wire' = Answered(r, "ok", Len(tokens) + 1)
  /\ UNCHANGED <<vars, demo, page, sent>>

\* Wrong credentials are answered 401; where there is no login, it is 404.
LoginFails(r) ==
  /\ r.kind = "login" /\ r.answer = "none"
  /\ wire' = Answered(r, IF demo THEN "refused" ELSE "other", None)
  /\ UNCHANGED <<vars, demo, tokens, page, sent>>

\* The server fails, or the answer is lost until the tab stops waiting.
AnswerError(r) ==
  /\ r.answer = "none"
  /\ wire' = Answered(r, "other", None)
  /\ UNCHANGED <<vars, demo, tokens, page, sent>>

\* Seats of the seed that are missing come back under their old assignments.
Reconciled ==
  memberships \cup
    {m \in DemoSeat : \A x \in memberships : x.principal # m.principal \/ x.capsule # m.capsule}

RestartServer ==
  /\ memberships' = IF demo THEN Reconciled ELSE memberships
  /\ bindings' = IF demo THEN bindings \cup DemoBinding ELSE bindings
  /\ wire' = {r \in wire : r.answer # "none"}
               \cup {[r EXCEPT !.answer = "other"] : r \in {x \in wire : x.answer = "none"}}
  /\ UNCHANGED <<now, capsuleState, jit, nextAssignment, demo, tokens, page, sent>>

ResetStore(actor) ==
  /\ demo /\ IsControlPlaneAdmin(actor)
  /\ memberships' = SeedMembership /\ bindings' = SeedBinding /\ jit' = << >>
  /\ capsuleState' = [c \in Capsule |-> IF c \in BaseCapsule THEN "active" ELSE "absent"]
  /\ UNCHANGED <<now, nextAssignment, session>>

StoreStep == (MembershipStep \/ ClockStep) /\ UNCHANGED session

-----------------------------------------------------------------------------
\* The tab.

Send(kind) ==
  /\ sent < MaxRequests
  /\ sent' = sent + 1
  /\ wire' = wire \cup {[id |-> sent + 1, kind |-> kind, token |-> tab, answer |-> "none",
                         grant |-> None]}

\* Mutant: the timer of the account that left runs on.
ShowLoginOnly(text) == user' = None /\ boot' = FALSE /\ notice' = text /\ UNCHANGED timer

ShowLogin(text) == user' = None /\ timer' = None /\ boot' = FALSE /\ notice' = text

\* Mutant: the timer is set before the new token is stored.
SignInEarly(i) == tab' = i /\ user' = i /\ timer' = tab /\ boot' = FALSE /\ notice' = "none"

\* The effects of a change of the principal: the timer of the old one is
\* cancelled, and one for the token in the tab is set.
SignIn(i) == tab' = i /\ user' = i /\ timer' = i /\ boot' = FALSE /\ notice' = "none"

\* The page is loaded again: requests of the old page end with it.
LoadPage(i) ==
  /\ tab' = i /\ user' = None /\ timer' = None /\ notice' = "none"
  /\ boot' = (i # None)
  /\ IF i = None
     THEN wire' = {} /\ UNCHANGED sent
     ELSE /\ sent < MaxRequests
          /\ sent' = sent + 1
          /\ wire' = {[id |-> sent + 1, kind |-> "me", token |-> i, answer |-> "none",
                       grant |-> None]}

Reload == LoadPage(tab) /\ UNCHANGED <<vars, demo, tokens>>

\* In production an identity broker puts a token into the tab.
BrokerSignIn(p) ==
  /\ ~demo /\ Enabled(p)
  /\ Len(tokens) < MaxTokens
  /\ tokens' = Append(tokens, SignedToken(p))
  /\ LoadPage(Len(tokens) + 1)
  /\ UNCHANGED <<vars, demo>>

SigningIn == \E r \in wire : r.kind = "login"

SubmitLogin ==
  /\ ~boot /\ user = None /\ ~SigningIn
  /\ Send("login")
  /\ UNCHANGED <<vars, demo, tokens, page>>

RequestView ==
  /\ user # None
  /\ Send("view")
  /\ UNCHANGED <<vars, demo, tokens, page>>

SignOut ==
  /\ user # None
  /\ tab' = None /\ ShowLogin("none")
  /\ UNCHANGED <<vars, demo, tokens, wire, sent>>

TimerFires ==
  /\ timer # None
  /\ tab' = None /\ ShowLogin("expired")
  /\ UNCHANGED <<vars, demo, tokens, wire, sent>>

\* Mutant: any refusal ends the session.
RefusalOfAny(r) == r.answer = "refused" /\ r.token # None

\* A delayed answer to a previous account is none of the new one's business.
RefusalOfCurrent(r) == r.answer = "refused" /\ r.token # None /\ r.token = tab

Succeed(r) ==
  /\ r.answer = "ok"
  /\ CASE r.kind = "login" -> SignIn(r.grant)
       [] r.kind = "me"    -> SignIn(r.token)
       [] r.kind = "view"  -> UNCHANGED page

\* The event of request, and then what the caller makes of the error.
Refuse(r) ==
  /\ r.answer = "refused"
  /\ IF RefusalOfCurrent(r)
     THEN tab' = None /\ ShowLogin("expired")
     ELSE IF r.kind = "me"
     THEN tab' = None /\ ShowLogin(notice)
     ELSE UNCHANGED page

\* Mutant: the restoring page waits for a success.
FailSilently(r) == UNCHANGED page

Fail(r) ==
  IF r.kind = "me" THEN ShowLogin("unavailable") /\ UNCHANGED tab ELSE UNCHANGED page

\* An answer arrives, or the tab has waited for 20 seconds.
Receive(r) ==
  /\ r.answer # "none"
  /\ Succeed(r) \/ Refuse(r) \/ (r.answer = "other" /\ Fail(r))
  /\ wire' = wire \ {r}
  /\ UNCHANGED <<vars, demo, tokens, sent>>

GiveUpWaiting(r) ==
  /\ Fail(r)
  /\ wire' = wire \ {r}
  /\ UNCHANGED <<vars, demo, tokens, sent>>

-----------------------------------------------------------------------------
SessionInit ==
  /\ Init
  /\ demo \in BOOLEAN
  /\ tokens = << >>
  /\ tab = None /\ user = None /\ timer = None /\ boot = FALSE /\ notice = "none"
  /\ wire = {} /\ sent = 0

ServerStep ==
  \/ \E r \in wire : Serve(r) \/ LoginFails(r) \/ AnswerError(r) \/ \E p \in Principal : Login(r, p)
  \/ RestartServer
  \/ \E actor \in Principal : ResetStore(actor)
  \/ StoreStep

TabStep ==
  \/ Reload \/ SubmitLogin \/ RequestView \/ SignOut \/ TimerFires
  \/ \E p \in Principal : BrokerSignIn(p)
  \/ \E r \in wire : Receive(r) \/ GiveUpWaiting(r)

SessionNext == ServerStep \/ TabStep

\* Timers of the browser fire: the expiry of the token and the 20 seconds of
\* every single request.
SessionFairness ==
  /\ WF_sessionVars(TimerFires)
  /\ \A i \in 1 .. MaxRequests :
       WF_sessionVars(\E r \in wire : r.id = i /\ (Receive(r) \/ GiveUpWaiting(r)))

SessionSpec == SessionInit /\ [][SessionNext]_sessionVars /\ SessionFairness

-----------------------------------------------------------------------------
\* Properties.

\* The variables have their types; a restoring page has asked who it is, and a
\* page nobody is signed in to runs no timer.
SessionTypeOK ==
  /\ demo \in BOOLEAN
  /\ tokens \in Seq(Token) /\ Len(tokens) <= MaxTokens
  /\ {tab, user, timer} \subseteq 0 .. Len(tokens)
  /\ boot \in BOOLEAN
  /\ notice \in {"none", "expired", "unavailable"}
  /\ wire \subseteq Request /\ sent \in 0 .. MaxRequests
  /\ boot => user = None /\ \E r \in wire : r.kind = "me"
  /\ user = None => timer = None

\* The page of one account never sends the token of another, and the timer
\* that will end it is the one of its own token (App in App.tsx).
PageUsesOwnToken == user # None => tab = user /\ timer = user

\* Being told that a session expired is never an echo of an earlier one: a
\* request that carried the very token that goes away was refused, or its own
\* timer ran out. That request may be a login with a wrong password, sent while
\* the token of a page that could not be restored is still in the tab
\* (request in api.ts: "A delayed response from a previous account must not
\* clear a newer login").
NewerLoginSurvives ==
  [][tab # None /\ tab' = None /\ notice' = "expired" =>
       \/ wire' = wire /\ timer = tab
       \/ \E r \in wire \ wire' : r.answer = "refused" /\ r.token = tab]_sessionVars

\* Once an assignment a token names is gone, the token is never accepted again
\* (authorizationFingerprintFor in app.ts: "Removing and later re-granting the
\* same capsule creates a new assignmentId and therefore cannot make an older
\* token valid again").
Held == {m.assignment : m \in memberships}
Lapsed(i) == \E m \in tokens[i].scope : m.assignment \notin Held

LapsedTokensStayRefused ==
  [][\A i \in DOMAIN tokens : Lapsed(i) => ~Accepts(i)']_sessionVars

\* The same, for deployments in production.
LapsedTokensStayRefusedInProduction ==
  [][~demo => \A i \in DOMAIN tokens : Lapsed(i) => ~Accepts(i)']_sessionVars

\* Nobody looks at the restoring page or a running sign-in for ever, and every
\* signed-in page ends, by sign-out, refusal, expiry or a reload that fails.
EveryWaitEnds ==
  /\ boot ~> ~boot
  /\ SigningIn ~> ~SigningIn
  /\ \A i \in TokenId : user = i ~> user # i
=============================================================================
