-------------------------------- MODULE Web ---------------------------------
(* librespot's calls over HTTPS (core/src): the addresses of ApResolver, the   *)
(* tokens of Login5Manager and SpClient, the retries of SpClient and the rate  *)
(* limit of HttpClient.                                                        *)
(*                                                                             *)
(* Callers are tasks of main's thread and the player's loading threads, which  *)
(* call beside it (player.rs 2448-2452).  So each critical section, the check  *)
(* of the rate limit included, is a step of its own, and another caller may    *)
(* come between any two of them.  The servers are the environment: they may    *)
(* answer anything, or nothing.                                                *)
EXTENDS Naturals

CONSTANTS
    Callers,        \* the tasks and threads that call
    MaxTries,       \* RequestStrategy::TryTimes (10 in the code)
    Trials,         \* tries before an access point is dropped (3 in the code)
    TokenTries,     \* MAX_TRIES of client_token (3 in the code)
    LoginTries,     \* MAX_LOGIN_TRIES (3 in the code)
    Counts,         \* the values of the count in client_token (a u8: 256)
    MaxAddresses,   \* bound: addresses the resolver gives for an endpoint
    Burst,          \* RATE_LIMIT_CALLS_PER_INTERVAL (300 in the code)
    FallbackFits    \* the configured port is none or 443

ASSUME WebAssumption ==
    /\ {MaxTries, Trials, TokenTries, LoginTries} \subseteq Nat \ {0}
    /\ Counts \in Nat /\ TokenTries < Counts
    /\ MaxAddresses \in Nat /\ Burst \in Nat \ {0} /\ FallbackFits \in BOOLEAN

VARIABLES
    shared,     \* what the callers share: see Shared
    caller      \* where each caller is: see Caller

webVars == <<shared, caller>>

Endpoints == {"accesspoint", "dealer", "spclient"}
\* What is called: requests that SpClient retries, single ones without tokens,
\* the dealer's address with its token, and the session's access point.
Goals == {"plain", "direct", "url", "ap"}

\* The addresses left, whether SpClient keeps one, whether there is a token that
\* has not expired, the requests the limit still allows, stored credentials.
Shared == [aps: [Endpoints -> 0..(MaxAddresses + 1)], ap: BOOLEAN,
           client: BOOLEAN, auth: BOOLEAN, quota: 0..Burst, login: BOOLEAN]

\* Where a caller waits for a server,
Waiting == {"resolving", "client", "answer", "login", "sent"}
\* where it is on its way to a client token,
Solving == {"ask", "client", "solved", "answer"}
\* and what it does next, if it does not wait.
Going == {"address", "look", "resolve", "unresolved", "take", "keep", "auth",
          "token", "ask", "solved", "post"}
Caller == [pc: {"idle"} \cup Waiting \cup Going, goal: Goals, need: {"send", "login"},
           tries: 0..MaxTries, count: 0..(Counts - 1), logins: 0..LoginTries,
           overtaken: BOOLEAN]

\* A caller that waits for nothing.
Free == [pc |-> "idle", goal |-> "plain", need |-> "send",
         tries |-> 0, count |-> 0, logins |-> 0, overtaken |-> FALSE]

WebInit ==
    /\ shared = [aps |-> [e \in Endpoints |-> 0], ap |-> FALSE, client |-> FALSE,
                 auth |-> FALSE, quota |-> Burst, login |-> FALSE]
    /\ caller = [k \in Callers |-> Free]

\* Caller k goes on as c, and leaves w.
Moves(k, w, c) == shared' = w /\ caller' = [caller EXCEPT ![k] = c]
At(k, pc) == [caller[k] EXCEPT !.pc = pc]
GoesTo(k, pc) == Moves(k, shared, At(k, pc))
Ends(k) == Moves(k, shared, Free)

-----------------------------------------------------------------------------
(* The calls.                                                                  *)

Begins(k, goal, pc, tries) ==
    /\ caller[k].pc = "idle"
    /\ Moves(k, shared, [Free EXCEPT !.goal = goal, !.pc = pc, !.tries = tries])

\* A request to the access point,
CallPlain(k) == Begins(k, "plain", "address", 1)
\* one to another host,
CallDirect(k) == Begins(k, "direct", "post", 0)
\* the dealer's URL, with its address and token,
GetUrl(k) == Begins(k, "url", "look", 0)
\* and Session::connect's access point.
ResolveAp(k) == Begins(k, "ap", "look", 0)

-----------------------------------------------------------------------------
(* HttpClient: the limit is checked before a request leaves, and a request     *)
(* over it fails at once.  All hosts of spotify.com count as one.              *)

CheckKey == shared.quota > 0
Used == [shared EXCEPT !.quota = @ - 1]

-----------------------------------------------------------------------------
(* The resolver, and the access point that SpClient keeps.                     *)

Endpoint(c) == CASE c.goal = "url" -> "dealer"
               [] c.goal = "ap" -> "accesspoint"
               [] OTHER -> "spclient"

\* get_accesspoint: the address that is kept, or a new one.
GetAccesspoint(k) == /\ caller[k].pc = "address"
                     /\ GoesTo(k, IF shared.ap THEN "auth" ELSE "look")

IsAnyEmpty == \E e \in Endpoints : shared.aps[e] = 0

\* resolve looks whether there is something to resolve,
Resolve(k) == /\ caller[k].pc = "look"
              /\ GoesTo(k, IF IsAnyEmpty THEN "resolve" ELSE "take")

AskResolver(k) ==
    /\ caller[k].pc = "resolve"
    /\ IF CheckKey THEN Moves(k, Used, At(k, "resolving")) ELSE GoesTo(k, "unresolved")

\* stores the addresses that fit the configured port, and the fallbacks as well
\* as soon as one endpoint has none,
MStore(found) ==
    [shared EXCEPT !.aps = IF \A e \in Endpoints : found[e] = 0
                           THEN [e \in Endpoints |-> found[e] + (IF FallbackFits THEN 1 ELSE 0)]
                           ELSE found]
Store(found) ==
    [shared EXCEPT !.aps = IF \E e \in Endpoints : found[e] = 0
                           THEN [e \in Endpoints |-> found[e] + (IF FallbackFits THEN 1 ELSE 0)]
                           ELSE found]

\* (an error counts as no address)
ApResolved(k) ==
    /\ caller[k].pc \in {"resolving", "unresolved"}
    /\ \E found \in [Endpoints -> 0..MaxAddresses] :
         /\ caller[k].pc = "unresolved" => \A e \in Endpoints : found[e] = 0
         /\ Moves(k, Store(found), At(k, "take"))

\* and takes the first one, if another caller has left one.  history: those who
\* are about to take from the same list are overtaken.
Take(k) ==
    /\ caller[k].pc = "take"
    /\ LET c == caller[k]
           e == Endpoint(c)
           next == CASE c.goal = "plain" -> [c EXCEPT !.pc = "keep", !.overtaken = FALSE]
                     [] c.goal = "url" -> [c EXCEPT !.pc = "auth", !.overtaken = FALSE]
                     [] OTHER -> Free
       IN IF shared.aps[e] = 0 THEN Ends(k)
          ELSE /\ shared' = [shared EXCEPT !.aps[e] = @ - 1]
               /\ caller' = [j \in Callers |->
                     IF j = k THEN next
                     ELSE IF caller[j].pc = "take" /\ Endpoint(caller[j]) = e
                          THEN [caller[j] EXCEPT !.overtaken = TRUE] ELSE caller[j]]

\* get_accesspoint keeps it for all.
Keep(k) == /\ caller[k].pc = "keep"
           /\ Moves(k, [shared EXCEPT !.ap = TRUE], At(k, "auth"))

-----------------------------------------------------------------------------
(* The authorisation token: read from the cache, or a login.                   *)

\* The dealer needs no more than that; a request needs the client token as well,
\* and so does each try of the login.
HaveAuthToken(c) == IF c.goal = "url" THEN Free
                    ELSE [c EXCEPT !.pc = "token", !.need = "send", !.logins = 0]

AuthToken(k) ==
    /\ caller[k].pc = "auth"
    /\ IF ~shared.login THEN Ends(k)
       ELSE Moves(k, shared, IF shared.auth THEN HaveAuthToken(caller[k])
                             ELSE [At(k, "token") EXCEPT !.need = "login", !.logins = 1])

\* login5's answer: the token,
LoggedIn(k) ==
    /\ caller[k].pc = "login"
    /\ Moves(k, [shared EXCEPT !.auth = TRUE], HaveAuthToken(caller[k]))

\* an answer to try again: a challenge, an empty message, or TIMEOUT or
\* TOO_MANY_ATTEMPTS, after which it sleeps for 3 seconds,
MLoginAgain(k) == caller[k].pc = "login" /\ GoesTo(k, "token")
LoginAgain(k) ==
    /\ caller[k].pc = "login"
    /\ IF caller[k].logins < LoginTries
       THEN Moves(k, shared, [At(k, "token") EXCEPT !.logins = @ + 1])
       ELSE Ends(k)

\* or a refusal, an error, a challenge that cannot be met.
LoginFails(k) == caller[k].pc = "login" /\ Ends(k)

-----------------------------------------------------------------------------
(* The client token: read from the cache, or asked for, where the server may   *)
(* answer with challenges.                                                     *)

ClientToken(k) ==
    /\ caller[k].pc = "token"
    /\ GoesTo(k, IF shared.client THEN "post" ELSE "ask")

\* request_with_options goes on without the token, login5's request does not.
MNoClientToken(c) == Free
NoClientToken(c) == IF c.need = "send" THEN [c EXCEPT !.pc = "post", !.count = 0] ELSE Free

ClientTokenRequest(k) ==
    /\ caller[k].pc = "ask"
    /\ IF CheckKey THEN Moves(k, Used, At(k, "client"))
       ELSE Moves(k, shared, NoClientToken(caller[k]))

\* The count of the responses wraps around (a debug build panics).
Counted(c) == [c EXCEPT !.count = IF @ + 1 = Counts THEN 0 ELSE @ + 1]

\* A challenge was not met: from the start, unless there were enough.
TryAgain(c) == IF c.count < TokenTries THEN [c EXCEPT !.pc = "ask"] ELSE NoClientToken(c)

\* A response, to the request or to the answer of a challenge: the token,
Granted(k) ==
    /\ caller[k].pc \in {"client", "answer"}
    /\ Moves(k, [shared EXCEPT !.client = TRUE], [At(k, "post") EXCEPT !.count = 0])

\* a challenge that is solved (the count is not looked at then),
Challenged(k) ==
    /\ caller[k].pc \in {"client", "answer"}
    /\ Moves(k, shared, Counted(At(k, "solved")))

\* one that is not solved,
Unsolved(k) ==
    /\ caller[k].pc \in {"client", "answer"}
    /\ Moves(k, shared, TryAgain(Counted(caller[k])))

\* or something else: an error, an unknown message, no challenge.
NotGranted(k) ==
    /\ caller[k].pc \in {"client", "answer"}
    /\ Moves(k, shared, NoClientToken(caller[k]))

AnswerChallenge(k) ==
    /\ caller[k].pc = "solved"
    /\ IF CheckKey THEN Moves(k, Used, At(k, "answer"))
       ELSE Moves(k, shared, TryAgain(caller[k]))

\* The answer is refused.
AskAgain(k) == caller[k].pc = "answer" /\ Moves(k, shared, TryAgain(caller[k]))

-----------------------------------------------------------------------------
(* request_with_options: the address and the tokens are taken anew at every    *)
(* try.                                                                        *)

\* The request of a call, or of a login.
Post(k) ==
    /\ caller[k].pc = "post"
    /\ IF CheckKey
       THEN Moves(k, Used, At(k, IF caller[k].need = "send" THEN "sent" ELSE "login"))
       ELSE Ends(k)

\* An answer, or an error that is not tried again.
Responded(k) == caller[k].pc = "sent" /\ Ends(k)

\* An error of kind Unavailable or DeadlineExceeded: every third try (Trials) drops
\* the access point that is kept.
Failed(k) ==
    /\ caller[k].pc = "sent" /\ caller[k].goal = "plain"
    /\ IF caller[k].tries >= MaxTries THEN Ends(k)
       ELSE Moves(k, [shared EXCEPT !.ap = @ /\ caller[k].tries % Trials # 0],
                     [At(k, "address") EXCEPT !.tries = @ + 1])

-----------------------------------------------------------------------------
(* Time passes: the quota is replenished and tokens expire.                    *)

Replenish ==
    /\ shared.quota < Burst
    /\ shared' = [shared EXCEPT !.quota = @ + 1]
    /\ UNCHANGED caller

Expire ==
    /\ \/ shared.client /\ shared' = [shared EXCEPT !.client = FALSE]
       \/ shared.auth /\ shared' = [shared EXCEPT !.auth = FALSE]
    /\ UNCHANGED caller

\* The session has logged in and has stored its reusable credentials.
SignIn ==
    /\ ~shared.login
    /\ shared' = [shared EXCEPT !.login = TRUE]
    /\ UNCHANGED caller

-----------------------------------------------------------------------------
Call(k) == CallPlain(k) \/ CallDirect(k) \/ GetUrl(k) \/ ResolveAp(k)

\* What a caller does by itself,
Acts(k) == \/ GetAccesspoint(k) \/ Resolve(k) \/ AskResolver(k) \/ Take(k) \/ Keep(k)
           \/ AuthToken(k) \/ ClientToken(k) \/ ClientTokenRequest(k) \/ AnswerChallenge(k)
           \/ Post(k) \/ (caller[k].pc = "unresolved" /\ ApResolved(k))

\* and when a server has answered.
Hears(k) == \/ caller[k].pc = "resolving" /\ ApResolved(k)
            \/ LoggedIn(k) \/ LoginAgain(k) \/ LoginFails(k)
            \/ Granted(k) \/ Challenged(k) \/ Unsolved(k) \/ NotGranted(k) \/ AskAgain(k)
            \/ Responded(k) \/ Failed(k)

WebNext ==
    \/ \E k \in Callers : Call(k) \/ Acts(k) \/ Hears(k)
    \/ Replenish \/ Expire \/ SignIn

\* Callers run; no server owes an answer, since no request has a time limit.
WebSpec == WebInit /\ [][WebNext]_webVars /\ \A k \in Callers : WF_webVars(Acts(k))

-----------------------------------------------------------------------------
(* Properties.                                                                 *)

WebTypeOK ==
    /\ shared \in Shared
    /\ caller \in [Callers -> Caller]

\* With no port configured, or 443, a caller is told that there is no address
\* only when another one has taken the last since it looked (the list is checked,
\* filled and read under three locks, apresolve.rs 100, 127, 131): what one
\* leaves of a list, the next finds or fetches, whatever the resolver answered.
ResolverAnswers ==
    /\ WebTypeOK
    /\ FallbackFits => \A k \in Callers :
         caller[k].pc = "take" /\ shared.aps[Endpoint(caller[k])] = 0 => caller[k].overtaken

\* Every call ends, for every order of challenges, refusals, errors and expiring
\* tokens: no loop (retries, login, client token) feeds another for ever
\* (spclient.rs 257-346, 463-547, login5.rs 100-126).  The code lets a call go on
\* in two cases: a request that is never answered, as none has a time limit, and
\* a client token server that goes on sending challenges (313-317).
EveryCallEnds ==
    \A k \in Callers :
        \/ []<>(caller[k].pc = "idle")
        \/ \E place \in Waiting : <>[](caller[k].pc = place)
        \/ <>[](caller[k].pc \in Solving) /\ []<>(caller[k].pc = "solved")

\* A server that gives no client token makes no call fail that has what it needs
\* to log in: whatever comes of challenges, answers and the rate limit, a caller
\* whose token is cached goes on to its own request (spclient.rs 506-516).
ClientTokenTolerated ==
    [][\A k \in Callers :
         caller[k].pc \in Solving /\ caller[k].need = "send"
         => caller'[k].pc \in Solving \cup {"post"}]_webVars
=============================================================================
