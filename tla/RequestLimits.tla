------------------------------ MODULE RequestLimits ------------------------------
(***************************************************************************)
(* The request budgets of the API (apps/api/src/rate-limits.ts): one per   *)
(* transport peer for all requests, one per verified principal, one per    *)
(* peer for logins, each in a map of bounded size; and the lockout after   *)
(* failed logins of one user from one peer (login in app.ts).              *)
(*                                                                         *)
(* The code compares Date.now() with times it stored; here a counter has   *)
(* the time left to it, which every tick shortens, so that time needs no   *)
(* bound.  A clock that is set back is not modelled: it only lengthens a   *)
(* window.                                                                 *)
(***************************************************************************)
EXTENDS Naturals, Sequences, FiniteSets

CONSTANTS
  Peer, Principal, User,
  Window,              \* windowMs of the budgets
  IpMax, PrincipalMax, ExpensiveMax, MutationMax, LoginMax,
  TrackedKeys,         \* maxTrackedKeys of the budgets
  MaxAttempts, AttemptWindow, Block,
  TrackedAttempts,     \* maxTrackedKeys of the lockout
  Free                 \* no entry in a map

VARIABLES
  peers,       \* BoundedPeerStore.peers
  principals,  \* RequestBudgets.principals
  logins,      \* RequestBudgets.logins
  attempts,    \* loginAttempts
  order,       \* the keys of loginAttempts, in the order of the map
  passed       \* history: what was let through, see LetThrough

budgets == <<peers, principals, logins>>
lockout == <<attempts, order>>
vars == <<budgets, lockout, passed>>

Cost == {"ordinary", "expensive", "mutation"}
Account == Peer \X User

ASSUME LimitAssumption ==
  /\ {Window, IpMax, PrincipalMax, ExpensiveMax, MutationMax, LoginMax, TrackedKeys,
      MaxAttempts, AttemptWindow, Block, TrackedAttempts} \subseteq Nat \ {0}
  /\ IsFiniteSet(Peer) /\ IsFiniteSet(Principal) /\ IsFiniteSet(User)

\* No entry is not an entry.
ASSUME FreeAssumption ==
  /\ Free \notin [left : Nat, total : Nat, expensive : Nat, mutations : Nat]
  /\ Free \notin [count : Nat, age : Nat, block : Nat]

-----------------------------------------------------------------------------
\* Counters in a map of bounded size.

Tracked(counters) == {k \in DOMAIN counters : counters[k] # Free}

Live(counters, k) == counters[k] # Free /\ counters[k].left > 0

Full(counters) == Cardinality(Tracked(counters)) >= TrackedKeys

Without(counters, k) == [counters EXCEPT ![k] = Free]

Expired(counters) == {k \in Tracked(counters) : ~Live(counters, k)}

Swept(counters) == [k \in DOMAIN counters |-> IF k \in Expired(counters) THEN Free ELSE counters[k]]

\* The map once the expired entries are out of the way that could keep k out.
MakeRoom(counters, k) ==
  IF Full(Without(counters, k)) THEN Swept(counters) ELSE Without(counters, k)

NewCounter == [left |-> Window, total |-> 0, expensive |-> 0, mutations |-> 0]

\* The map in which k has a live counter; at capacity it has none.
Counted(counters, k) ==
  LET room == MakeRoom(counters, k)
  IN  IF Live(counters, k) THEN counters
      ELSE IF Full(room) THEN room ELSE [room EXCEPT ![k] = NewCounter]

\* Mutation: the request that opens a peer's window is not counted.
PeerCountFromZero(counters, k) ==
  IF Live(counters, k)
  THEN [counters EXCEPT ![k].total = IF @ < IpMax + 1 THEN @ + 1 ELSE @]
  ELSE Counted(counters, k)

\* Mutation: every request of a peer opens its window again.
PeerCountAfresh(counters, k) ==
  LET counted == Counted(counters, k)
  IN  IF Live(counted, k)
      THEN [counted EXCEPT ![k].total = IF @ < IpMax + 1 THEN @ + 1 ELSE @, ![k].left = Window]
      ELSE counted

\* Every request of a peer is counted, the one that opens the window and those
\* that are rejected too, but these only up to the first one.
PeerCount(counters, k) ==
  LET counted == Counted(counters, k)
  IN  IF Live(counted, k)
      THEN [counted EXCEPT ![k].total = IF @ < IpMax + 1 THEN @ + 1 ELSE @]
      ELSE counted

\* The delay a refused request is told: until its own window is over, or the
\* first of those that keep it out.
RetryAfter(counters, k) ==
  LET lefts == {counters[j].left : j \in {j \in DOMAIN counters : Live(counters, j)}}
  IN  IF Live(counters, k) THEN counters[k].left
      ELSE CHOOSE d \in lefts : \A e \in lefts : d <= e

PeerAdmits(counters, k) == Live(counters, k) /\ counters[k].total <= IpMax

Within(counter, cost) ==
  /\ counter.total < PrincipalMax
  /\ cost = "expensive" => counter.expensive < ExpensiveMax
  /\ cost = "mutation" => counter.mutations < MutationMax

One(condition) == IF condition THEN 1 ELSE 0

Consumed(counter, cost) ==
  [counter EXCEPT !.total = @ + 1,
                  !.expensive = @ + One(cost = "expensive"),
                  !.mutations = @ + One(cost = "mutation")]

PrincipalAdmitted(counted, k, cost) == Live(counted, k) /\ Within(counted[k], cost)

ConsumePrincipal(k, cost) ==
  LET counted == Counted(principals, k)
  IN  principals' = IF PrincipalAdmitted(counted, k, cost)
                    THEN [counted EXCEPT ![k] = Consumed(@, cost)] ELSE counted

LoginAdmitted(counted, k) == Live(counted, k) /\ counted[k].total < LoginMax

ConsumeLogin(k) ==
  LET counted == Counted(logins, k)
  IN  logins' = IF LoginAdmitted(counted, k)
                THEN [counted EXCEPT ![k].total = @ + 1] ELSE counted

-----------------------------------------------------------------------------
\* The lockout.

Blocked(table, account) == table[account] # Free /\ table[account].block > 0

\* Mutation: an old entry goes although it is blocked.
StaleByAge(table) ==
  {a \in DOMAIN table : table[a] # Free /\ table[a].age >= AttemptWindow}

Stale(table) ==
  {a \in DOMAIN table : table[a] # Free /\ ~Blocked(table, a) /\ table[a].age >= AttemptWindow}

Cleared(table, gone) == [a \in DOMAIN table |-> IF a \in gone THEN Free ELSE table[a]]

\* The keys of the map without those gone, in their order.
Keeping(keys, gone) ==
  LET kept[n \in 0 .. Len(keys)] ==
        IF n = 0 THEN << >>
        ELSE IF keys[n] \in gone THEN kept[n - 1] ELSE Append(kept[n - 1], keys[n])
  IN  kept[Len(keys)]

\* Mutation: the table grows.
NobodyEvicted(keys, account) == {}

\* Who makes room for a new account: the oldest entries, blocked or not.
Evicted(keys, account) ==
  IF \E i \in DOMAIN keys : keys[i] = account THEN {}
  ELSE {keys[i] : i \in {j \in DOMAIN keys : j <= Len(keys) + 1 - TrackedAttempts}}

NextAttempt(entry) ==
  LET failed == IF entry = Free THEN [count |-> 0, age |-> 0, block |-> 0] ELSE entry
  IN  [failed EXCEPT !.count = IF @ < MaxAttempts THEN @ + 1 ELSE @,
                     !.block = IF failed.count + 1 >= MaxAttempts THEN Block ELSE @]

RecordFailure(table, keys, account) ==
  LET gone == Evicted(keys, account)
  IN  /\ attempts' = [Cleared(table, gone) EXCEPT ![account] = NextAttempt(table[account])]
      /\ order' = IF \E i \in DOMAIN keys : keys[i] = account
                  THEN keys ELSE Append(Keeping(keys, gone), account)

\* The handler, when the request got through: expired entries go, a blocked
\* account is turned away, and the result is recorded.
Authenticate(account, correct) ==
  LET table == Cleared(attempts, Stale(attempts))
      keys  == Keeping(order, Stale(attempts))
  IN  IF Blocked(table, account)
      THEN attempts' = table /\ order' = keys
      ELSE IF correct
      THEN attempts' = Cleared(table, {account}) /\ order' = Keeping(keys, {account})
      ELSE RecordFailure(table, keys, account)

-----------------------------------------------------------------------------
\* The history: what each key was let through since the first request that was
\* let through after the window before was over.  Nothing of the program depends
\* on it, and it does not look at the counters.

NoTally == [left |-> 0, all |-> 0, expensive |-> 0, mutation |-> 0]

OneMore(tally, cost) ==
  LET open == IF tally.left > 0 THEN tally ELSE [NoTally EXCEPT !.left = Window]
  IN  [open EXCEPT !.all = @ + 1,
                   !.expensive = @ + One(cost = "expensive"),
                   !.mutation = @ + One(cost = "mutation")]

LetThrough(tallies, k, cost, admitted) ==
  IF admitted THEN [tallies EXCEPT ![k] = OneMore(@, cost)] ELSE tallies

Shortened(tallies) ==
  [k \in DOMAIN tallies |->
     IF tallies[k].left > 1 THEN [tallies[k] EXCEPT !.left = @ - 1] ELSE NoTally]

NothingPassed ==
  [peer |-> [k \in Peer |-> NoTally], principal |-> [k \in Principal |-> NoTally],
   login |-> [k \in Peer |-> NoTally]]

-----------------------------------------------------------------------------
\* A request is counted for its peer first; what is refused goes no further.
Request(peer, principal, cost) ==
  LET admitted == PeerAdmits(PeerCount(peers, peer), peer)
  IN  /\ peers' = PeerCount(peers, peer)
      /\ IF admitted THEN ConsumePrincipal(principal, cost) ELSE UNCHANGED principals
      /\ passed' = [passed EXCEPT
           !.peer = LetThrough(@, peer, "ordinary", admitted),
           !.principal = LetThrough(@, principal, cost,
             admitted /\ PrincipalAdmitted(Counted(principals, principal), principal, cost))]
      /\ UNCHANGED <<logins, lockout>>

\* The login has no principal yet.
Login(peer, user, correct) ==
  LET admitted == PeerAdmits(PeerCount(peers, peer), peer)
      login    == admitted /\ LoginAdmitted(Counted(logins, peer), peer)
  IN  /\ peers' = PeerCount(peers, peer)
      /\ IF admitted THEN ConsumeLogin(peer) ELSE UNCHANGED logins
      /\ IF login THEN Authenticate(<<peer, user>>, correct) ELSE UNCHANGED lockout
      /\ passed' = [passed EXCEPT !.peer = LetThrough(@, peer, "ordinary", admitted),
                                  !.login = LetThrough(@, peer, "ordinary", login)]
      /\ UNCHANGED principals

Less(n) == IF n = 0 THEN 0 ELSE n - 1

Aged(counters) ==
  [k \in DOMAIN counters |->
     IF counters[k] = Free THEN Free ELSE [counters[k] EXCEPT !.left = Less(@)]]

\* Ages beyond the window are all the same.
Tick ==
  /\ peers' = Aged(peers) /\ principals' = Aged(principals) /\ logins' = Aged(logins)
  /\ attempts' = [a \in Account |->
       IF attempts[a] = Free THEN Free
       ELSE [attempts[a] EXCEPT !.age = IF @ < AttemptWindow THEN @ + 1 ELSE @,
                                !.block = Less(@)]]
  /\ passed' = [passed EXCEPT !.peer = Shortened(@), !.principal = Shortened(@),
                              !.login = Shortened(@)]
  /\ UNCHANGED order

\* A new process has empty maps.
Restart ==
  /\ peers' = [k \in Peer |-> Free]
  /\ principals' = [k \in Principal |-> Free]
  /\ logins' = [k \in Peer |-> Free]
  /\ attempts' = [a \in Account |-> Free]
  /\ order' = << >>
  /\ passed' = NothingPassed

Init ==
  /\ peers = [k \in Peer |-> Free]
  /\ principals = [k \in Principal |-> Free]
  /\ logins = [k \in Peer |-> Free]
  /\ attempts = [a \in Account |-> Free]
  /\ order = << >>
  /\ passed = NothingPassed

Next ==
  \/ \E peer \in Peer, principal \in Principal, cost \in Cost : Request(peer, principal, cost)
  \/ \E peer \in Peer, user \in User, correct \in BOOLEAN : Login(peer, user, correct)
  \/ Tick \/ Restart

Spec == Init /\ [][Next]_vars

-----------------------------------------------------------------------------
\* Properties.

Counter(most) ==
  [left : 0 .. Window, total : 0 .. most, expensive : 0 .. ExpensiveMax,
   mutations : 0 .. MutationMax]

Tally == [left : 0 .. Window, all : Nat, expensive : Nat, mutation : Nat]

\* The maps have their types: no counter exceeds its budget, no map its size,
\* and the order of the lockout lists exactly its entries.
TypeOK ==
  /\ peers \in [Peer -> {Free} \cup Counter(IpMax + 1)]
  /\ principals \in [Principal -> {Free} \cup Counter(PrincipalMax)]
  /\ logins \in [Peer -> {Free} \cup Counter(LoginMax)]
  /\ attempts \in [Account -> {Free} \cup
       [count : 1 .. MaxAttempts, age : 0 .. AttemptWindow, block : 0 .. Block]]
  /\ \A counters \in {peers, principals, logins} : Cardinality(Tracked(counters)) <= TrackedKeys
  /\ order \in Seq(Account) /\ {order[i] : i \in DOMAIN order} = {a \in Account : attempts[a] # Free}
  /\ Len(order) = Cardinality({a \in Account : attempts[a] # Free}) /\ Len(order) <= TrackedAttempts
  /\ passed \in [peer : [Peer -> Tally], principal : [Principal -> Tally], login : [Peer -> Tally]]

\* The budgets are what the limits say (ipMax, principalMax, expensiveReadMax,
\* mutationMax and loginMax of rate-limits.ts): within one window nobody is let
\* through more often, whoever else asks, whatever is refused in between and
\* whichever entries the full maps lose.
BudgetsHold ==
  /\ \A k \in Peer : passed.peer[k].all <= IpMax /\ passed.login[k].all <= LoginMax
  /\ \A k \in Principal :
       /\ passed.principal[k].all <= PrincipalMax
       /\ passed.principal[k].expensive <= ExpensiveMax
       /\ passed.principal[k].mutation <= MutationMax

\* While its window lasts a budget is neither dropped, nor started afresh, nor
\* prolonged by requests that are refused: other keys, a full map and
\* rejections leave it alone (docs/SECURITY.md: "at capacity, new keys are
\* rejected until an entry expires instead of evicting an active budget").
BudgetStands(before, after) ==
  \A k \in DOMAIN before : Live(before, k) =>
    /\ after[k] # Free
    /\ after[k].left \in {before[k].left, before[k].left - 1}
    /\ after[k].total >= before[k].total

LiveBudgetsStand ==
  [][~Restart => /\ BudgetStands(peers, peers')
                 /\ BudgetStands(principals, principals')
                 /\ BudgetStands(logins, logins')]_vars

\* Who would be refused now, because the budget is exhausted or the map is full.
PeerRefused(counters, k) == ~PeerAdmits(PeerCount(counters, k), k)
PrincipalRefused(counters, k, cost) == ~PrincipalAdmitted(Counted(counters, k), k, cost)
LoginRefused(counters, k) == ~LoginAdmitted(Counted(counters, k), k)

\* A refusal lasts exactly as long as the answer says ("retry after the
\* indicated delay", rate-limits.ts): each tick takes one off the delay, at its
\* end the request would be admitted, and until then nothing that anybody asks
\* makes it longer or shorter.
Lasts(ticks, refused, delay, refusedThen, delayThen) ==
  refused => IF ticks = delay THEN ~refusedThen ELSE refusedThen /\ delayThen = delay - ticks

RefusalsLast(ticks) ==
  /\ \A k \in Peer :
       /\ Lasts(ticks, PeerRefused(peers, k), RetryAfter(peers, k),
                PeerRefused(peers', k), RetryAfter(peers', k))
       /\ Lasts(ticks, LoginRefused(logins, k), RetryAfter(logins, k),
                LoginRefused(logins', k), RetryAfter(logins', k))
  /\ \A k \in Principal, cost \in Cost :
       Lasts(ticks, PrincipalRefused(principals, k, cost), RetryAfter(principals, k),
             PrincipalRefused(principals', k, cost), RetryAfter(principals', k))

RetryAfterIsExact ==
  [][/\ Tick => RefusalsLast(1)
     /\ ~Tick /\ ~Restart => RefusalsLast(0)]_vars

\* A block lasts exactly its time: every tick takes one off it, and correct
\* passwords, further failures, other accounts and the sweep neither end nor
\* prolong it.  The one exception is the
\* code's own (app.ts, "oldestKey"): a new account in a full table without a
\* stale entry pushes out the oldest entry, blocked or not, and no other.
BlocksStand ==
  [][~Restart =>
       \A a \in Account : Blocked(attempts, a) =>
         \/ /\ attempts'[a] # Free
            /\ attempts'[a].block = IF Tick THEN attempts[a].block - 1 ELSE attempts[a].block
         \/ /\ Len(order) = TrackedAttempts /\ Stale(attempts) = {} /\ a = order[1]
            /\ \E b \in Account : attempts[b] = Free /\ attempts'[b] # Free]_vars
=============================================================================
