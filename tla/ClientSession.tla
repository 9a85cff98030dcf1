---------------------------- MODULE ClientSession ----------------------------
(***************************************************************************)
(* The admin web client's session: the tokens in localStorage, shared by   *)
(* the browser's tabs; in each tab the interceptor that refreshes them     *)
(* when a request is answered 401, the AuthContext that restores them when *)
(* the page loads, and the user's sign-ins and logouts; and the server's   *)
(* Session rows, where a refresh token may be used once.                   *)
(*                                                                         *)
(* Each tab is one JavaScript thread, so what it does on an answer is one  *)
(* step.  A refresh is a transaction (find, then delete and count), then   *)
(* an insert, each a step, and its answer may come late, or never: the     *)
(* client gives up after 30 s or is reloaded while the server goes on.     *)
(* A refresh token stands for its access token too, which is only stale or *)
(* fresh.  Tokens are taken up again once nothing refers to them.          *)
(***************************************************************************)
EXTENDS Naturals

CONSTANTS
    Tabs, Requests,   \* Requests are per tab
    Tokens, None,
    MaxLogins,        \* bound on the sign-ins the server knows at one time
    StrictMode        \* are effects run twice (React's development mode)?

ASSUME StrictModeAssumption == StrictMode \in BOOLEAN
ASSUME TokensAssumption == None # "done" /\ {None, "done"} \cap Tokens = {}
ASSUME MaxLoginsAssumption == MaxLogins \in Nat \ {0}

VARIABLES
    stored,       \* the refresh token in localStorage, or None
    access,       \* the access token beside it
    storedUser,   \* is the user in localStorage too?
    auth,         \* the tab's AuthState
    user,         \* has it a user?
    refreshing,   \* isRefreshing, per tab
    request,      \* the tab's requests
    post,         \* POST /auth/refresh, per tab and origin
    logout,       \* POST /auth/logout, per tab
    row,          \* the sign-in a token's Session row comes from, or 0: no row
    revoked,      \* history: sign-ins whose row was deleted other than by a refresh
    excused       \* history: the client lost its session for a reason

storage == <<stored, access, storedUser>>
tab     == <<auth, user, refreshing, request>>
server  == <<row, revoked>>
vars    == <<storage, tab, post, logout, server, excused>>

Origins == {"interceptor", "mount1", "mount2"}
Posts == Tabs \X Origins
Stages == {"idle", "sent", "found", "consumed", "issued", "refused"}
NoPost == [at |-> "idle", waits |-> FALSE, token |-> None, login |-> 0]
Sent(k) == [at |-> "sent", waits |-> TRUE, token |-> k, login |-> 0]
NoRequest == [pc |-> "idle", bearer |-> "none", retry |-> FALSE]

(* The three keys of localStorage are written and removed together, except *)
(* that a refresh writes no user.                                          *)
StorageOK ==
    /\ stored \in Tokens \cup {None} /\ access \in {"none", "fresh", "stale"}
    /\ storedUser \in BOOLEAN
    /\ stored = None <=> access = "none"
    /\ storedUser => stored # None
TypeOK ==
    /\ StorageOK /\ excused \in BOOLEAN
    /\ auth \in [Tabs -> {"loading", "in", "out"}]
    /\ user \in [Tabs -> BOOLEAN] /\ refreshing \in [Tabs -> BOOLEAN]
    /\ request \in [Tabs -> [Requests -> [pc: {"idle", "sent", "queued", "leads"},
                             bearer: {"none", "fresh", "stale"}, retry: BOOLEAN]]]
    /\ post \in [Posts -> [at: Stages, waits: BOOLEAN, token: Tokens \cup {None},
                           login: 0..MaxLogins]]
    /\ logout \in [Tabs -> Tokens \cup {None, "done"}]
    /\ row \in [Tokens -> 0..MaxLogins]
    /\ revoked \in SUBSET (1..MaxLogins)

(* A browser without a session, every tab at the login page.               *)
Init ==
    /\ stored = None /\ access = "none" /\ storedUser = FALSE
    /\ auth = [t \in Tabs |-> "out"] /\ user = [t \in Tabs |-> FALSE]
    /\ refreshing = [t \in Tabs |-> FALSE]
    /\ request = [t \in Tabs |-> [q \in Requests |-> NoRequest]]
    /\ post = [p \in Posts |-> NoPost] /\ logout = [t \in Tabs |-> None]
    /\ row = [k \in Tokens |-> 0]
    /\ revoked = {} /\ excused = FALSE

LiveOf(l) == {k \in Tokens : row[k] = l}
HasRow(k) == k \in Tokens /\ row[k] # 0
InUse == {k \in Tokens : row[k] # 0} \cup {stored} \cup {post[p].token : p \in Posts} \cup {logout[t] : t \in Tabs}
NewToken == CHOOSE k \in Tokens : k \notin InUse
TokensLeft == Tokens \ InUse # {}   \* bound

Store(k) == stored' = k /\ access' = "fresh"
(* Mutant: the user is not removed.                                        *)
ClearTokens == stored' = None /\ access' = "none" /\ UNCHANGED storedUser
ClearStorage == stored' = None /\ access' = "none" /\ storedUser' = FALSE
Shows(t, state) == auth' = [auth EXCEPT ![t] = state]
(* The reducer's LOGOUT.                                                   *)
ShowsOut(t) == Shows(t, "out") /\ user' = [user EXCEPT ![t] = FALSE]

-----------------------------------------------------------------------------
(* The server.                                                             *)

(* The post moves on at the server.                                        *)
Moves(p, stage, l) == post' = [post EXCEPT ![p] = [@ EXCEPT !.at = stage, !.login = l]]

(* The account may be one that is not let in (module EmployeeAccount).     *)
RefreshFind(p) ==
    /\ post[p].at = "sent"
    /\ \/ HasRow(post[p].token) /\ Moves(p, "found", row[post[p].token]) /\ UNCHANGED excused
       \/ HasRow(post[p].token) /\ Moves(p, "refused", 0) /\ excused' = TRUE
       \/ ~HasRow(post[p].token) /\ Moves(p, "refused", 0) /\ UNCHANGED excused
    /\ UNCHANGED <<storage, tab, logout, server>>

(* deleteMany, whose count decides.  Mutant: the count is not looked at.   *)
RefreshDeleteUnchecked(p) ==
    /\ post[p].at = "found"
    /\ Moves(p, "consumed", post[p].login)
    /\ row' = [row EXCEPT ![post[p].token] = 0]
    /\ UNCHANGED <<storage, tab, logout, revoked, excused>>
RefreshDelete(p) ==
    /\ post[p].at = "found"
    /\ \/ HasRow(post[p].token) /\ Moves(p, "consumed", post[p].login)
       \/ ~HasRow(post[p].token) /\ Moves(p, "refused", 0)
    /\ row' = [row EXCEPT ![post[p].token] = 0]
    /\ UNCHANGED <<storage, tab, logout, revoked, excused>>

(* generateTokens and persistRefreshSession, after the transaction.        *)
RefreshPersist(p) ==
    /\ post[p].at = "consumed" /\ TokensLeft
    /\ post' = [post EXCEPT ![p] = [@ EXCEPT !.at = "issued", !.token = NewToken, !.login = 0]]
    /\ row' = [row EXCEPT ![NewToken] = post[p].login]
    /\ UNCHANGED <<storage, tab, logout, revoked, excused>>

(* The insert fails, or the server stops: the old token is gone.           *)
RefreshCrash(p) ==
    /\ post[p].at = "consumed"
    /\ Moves(p, "refused", 0)
    /\ excused' = TRUE
    /\ UNCHANGED <<storage, tab, logout, server>>

DeletesRow(k) ==
    /\ row' = [row EXCEPT ![k] = 0]
    /\ revoked' = IF HasRow(k) THEN revoked \cup {row[k]} ELSE revoked

(* The row expires, is revoked from another device or by HR.               *)
RowGone(k) ==
    /\ HasRow(k)
    /\ DeletesRow(k) /\ excused' = TRUE
    /\ UNCHANGED <<storage, tab, post, logout>>

LogoutDelete(t) ==
    /\ logout[t] \in Tokens
    /\ logout' = [logout EXCEPT ![t] = "done"]
    /\ DeletesRow(logout[t])
    /\ UNCHANGED <<storage, tab, post, excused>>

Server(p) == RefreshFind(p) \/ RefreshDelete(p) \/ RefreshPersist(p)

-----------------------------------------------------------------------------
(* Requests and the response interceptor.                                  *)

(* The requests that have not reached the server yet age with the token.   *)
Aged(r) == IF r.bearer = "fresh" THEN [r EXCEPT !.bearer = "stale"] ELSE r
AccessExpires ==
    /\ access = "fresh" /\ access' = "stale"
    /\ request' = [t \in Tabs |-> [q \in Requests |-> Aged(request[t][q])]]
    /\ UNCHANGED <<stored, storedUser, auth, user, refreshing, post, logout, server, excused>>

Send(t, q) ==
    /\ auth[t] = "in" /\ request[t][q].pc = "idle"
    /\ request' = [request EXCEPT ![t][q] = [pc |-> "sent", bearer |-> access, retry |-> FALSE]]
    /\ UNCHANGED <<storage, auth, user, refreshing, post, logout, server, excused>>

(* An answer other than 401, no answer at all, or a 401 after the retry.   *)
Answered(t, q) ==
    /\ request[t][q].pc = "sent"
    /\ request' = [request EXCEPT ![t][q] = NoRequest]
    /\ UNCHANGED <<storage, auth, user, refreshing, post, logout, server, excused>>

Unauthorized(t, q) ==
    /\ request[t][q].pc = "sent"
    /\ request[t][q].bearer # "fresh" /\ ~request[t][q].retry

Queue(t, q) ==
    /\ Unauthorized(t, q) /\ refreshing[t]
    /\ request' = [request EXCEPT ![t][q].pc = "queued"]
    /\ UNCHANGED <<storage, auth, user, refreshing, post, logout, server, excused>>

(* Bound: a refresh given up on is over at the server before the next one. *)
Lead(t, q) ==
    /\ Unauthorized(t, q) /\ ~refreshing[t] /\ stored # None
    /\ post[<<t, "interceptor">>].at = "idle"
    /\ request' = [request EXCEPT ![t][q] = [@ EXCEPT !.pc = "leads", !.retry = TRUE]]
    /\ refreshing' = [refreshing EXCEPT ![t] = TRUE]
    /\ post' = [post EXCEPT ![<<t, "interceptor">>] = Sent(stored)]
    /\ UNCHANGED <<storage, auth, user, logout, server, excused>>

(* rejectQueue, and the end of the request that led.                       *)
Waiting(t) == {q \in Requests : request[t][q].pc \in {"queued", "leads"}}
(* Mutant: the queue is left as it is.                                     *)
RejectsLeader(t) == [q \in Requests |-> IF request[t][q].pc = "leads" THEN NoRequest ELSE request[t][q]]
Rejected(t) == [q \in Requests |-> IF q \in Waiting(t) THEN NoRequest ELSE request[t][q]]

(* A 401 with nothing in the storage.  Nobody queues: refreshing is FALSE. *)
LeadWithoutToken(t, q) ==
    /\ Unauthorized(t, q) /\ ~refreshing[t] /\ stored = None
    /\ request' = [request EXCEPT ![t] = [Rejected(t) EXCEPT ![q] = NoRequest]]
    /\ ClearStorage /\ ShowsOut(t)
    /\ UNCHANGED <<refreshing, post, logout, server, excused>>

(* Whoever waited is sent again with the new token; only the one that led  *)
(* is marked as a retry.                                                   *)
Replayed(t) ==
    [q \in Requests |-> IF q \in Waiting(t)
                        THEN [request[t][q] EXCEPT !.pc = "sent", !.bearer = "fresh"]
                        ELSE request[t][q]]

RefreshSucceeds(t) ==
    LET p == <<t, "interceptor">> IN
    /\ post[p].at = "issued" /\ post[p].waits
    /\ Store(post[p].token) /\ UNCHANGED storedUser
    /\ auth' = [auth EXCEPT ![t] = IF user[t] THEN "in" ELSE @]
    /\ request' = [request EXCEPT ![t] = Replayed(t)]
    /\ refreshing' = [refreshing EXCEPT ![t] = FALSE]
    /\ post' = [post EXCEPT ![p] = NoPost]
    /\ UNCHANGED <<user, logout, server, excused>>

(* The catch of the interceptor: the refresh was refused or given up.      *)
(* Mutant: the tab is not told.                                            *)
InterceptorFailsSilently(t) ==
    /\ request' = [request EXCEPT ![t] = Rejected(t)]
    /\ refreshing' = [refreshing EXCEPT ![t] = FALSE]
    /\ ClearStorage /\ UNCHANGED <<auth, user>>
InterceptorFails(t) ==
    /\ request' = [request EXCEPT ![t] = Rejected(t)]
    /\ refreshing' = [refreshing EXCEPT ![t] = FALSE]
    /\ ClearStorage /\ ShowsOut(t)

-----------------------------------------------------------------------------
(* AuthContext.                                                            *)

RestoreSucceeds(t) ==
    \E o \in {"mount1", "mount2"} :
       /\ post[<<t, o>>].at = "issued" /\ post[<<t, o>>].waits
       /\ Store(post[<<t, o>>].token) /\ UNCHANGED storedUser
       /\ Shows(t, "in") /\ user' = [user EXCEPT ![t] = TRUE]
       /\ post' = [post EXCEPT ![<<t, o>>] = NoPost]
       /\ UNCHANGED <<refreshing, request, logout, server, excused>>

Fails(t, o) ==
    \/ o = "interceptor" /\ InterceptorFails(t)
    \/ o # "interceptor" /\ ClearStorage /\ ShowsOut(t) /\ UNCHANGED <<refreshing, request>>

RefreshRefused(t, o) ==
    /\ post[<<t, o>>].at = "refused" /\ post[<<t, o>>].waits
    /\ Fails(t, o)
    /\ post' = [post EXCEPT ![<<t, o>>] = NoPost]
    /\ UNCHANGED <<logout, server, excused>>

(* The answer does not come: 30 s are over, or the network fails.          *)
GiveUp(t, o) ==
    /\ post[<<t, o>>].waits
    /\ Fails(t, o)
    /\ post' = [post EXCEPT ![<<t, o>>] = [@ EXCEPT !.waits = FALSE]]
    /\ excused' = TRUE
    /\ UNCHANGED <<logout, server>>

(* The server ends a refresh nobody waits for.                             *)
Unheard(p) ==
    /\ post[p].at \in {"issued", "refused"} /\ ~post[p].waits
    /\ post' = [post EXCEPT ![p] = NoPost]
    /\ UNCHANGED <<storage, tab, logout, server, excused>>

(* The second effect of a mount finds the first one's promise by its token.*)
(* Mutant: it does not look.                                               *)
NoPromise(sent, k) == FALSE
PendingPromise(sent, k) == sent.token = k

SentOnMount(t) ==
    LET first == Sent(stored)
        quiet == [p \in Posts |-> IF p[1] = t THEN [post[p] EXCEPT !.waits = FALSE] ELSE post[p]]
    IN  [quiet EXCEPT ![<<t, "mount1">>] = first,
                      ![<<t, "mount2">>] = IF StrictMode /\ ~PendingPromise(first, stored)
                                       THEN first ELSE @]

(* The page is loaded again: what the tab had in flight is forgotten.      *)
Reload(t) ==
    /\ \A o \in {"mount1", "mount2"} : post[<<t, o>>].at = "idle"
    /\ request' = [request EXCEPT ![t] = [q \in Requests |-> NoRequest]]
    /\ refreshing' = [refreshing EXCEPT ![t] = FALSE]
    /\ user' = [user EXCEPT ![t] = FALSE]
    /\ logout' = [logout EXCEPT ![t] = None]
    /\ excused' = (excused \/ \E o \in Origins : post[<<t, o>>].waits)
    /\ UNCHANGED <<storage, server>>
    /\ \/ /\ stored # None /\ storedUser
          /\ post' = SentOnMount(t) /\ Shows(t, "loading")
       \/ /\ ~(stored # None /\ storedUser)
          /\ post' = [p \in Posts |-> IF p[1] = t THEN [post[p] EXCEPT !.waits = FALSE] ELSE post[p]]
          /\ Shows(t, "out")

(* Login and registration.  The session of another sign-in may still have  *)
(* a refresh in flight.  The numbers of sign-ins are used again once the   *)
(* server has nothing of them.                                             *)
SignIn(t) ==
    /\ auth[t] = "out" /\ TokensLeft
    /\ \E l \in 1..MaxLogins :
          /\ LiveOf(l) = {} /\ \A p \in Posts : post[p].login # l
          /\ row' = [row EXCEPT ![NewToken] = l]
          /\ revoked' = revoked \ {l}
    /\ Store(NewToken) /\ storedUser' = TRUE
    /\ Shows(t, "in") /\ user' = [user EXCEPT ![t] = TRUE]
    /\ excused' = (excused /\ \E p \in Posts : post[p].waits)
    /\ UNCHANGED <<refreshing, request, post, logout>>

LogoutSend(t) ==
    /\ auth[t] = "in" /\ logout[t] = None /\ stored # None
    /\ logout' = [logout EXCEPT ![t] = stored]
    /\ excused' = TRUE
    /\ UNCHANGED <<storage, tab, post, server>>

(* Answered, failed, or never sent: there was no token.                    *)
LogoutFinish(t) ==
    /\ logout[t] # None \/ (auth[t] = "in" /\ stored = None)
    /\ logout' = [logout EXCEPT ![t] = None]
    /\ ClearStorage /\ ShowsOut(t)
    /\ excused' = TRUE
    /\ UNCHANGED <<refreshing, request, post, server>>

(* A request whose answer ends in setSessionUser, whatever became of the   *)
(* session meanwhile.                                                      *)
SetSessionUser(t, q) ==
    /\ request[t][q].pc = "sent" /\ request[t][q].bearer = "fresh"
    /\ request' = [request EXCEPT ![t][q] = NoRequest]
    /\ storedUser' = (storedUser \/ stored # None)
    /\ user' = [user EXCEPT ![t] = TRUE]
    /\ UNCHANGED <<stored, access, auth, refreshing, post, logout, server, excused>>

-----------------------------------------------------------------------------
Settle(t, q) == Answered(t, q) \/ Queue(t, q) \/ Lead(t, q) \/ LeadWithoutToken(t, q)
Hear(t) == RefreshSucceeds(t) \/ RestoreSucceeds(t) \/ \E o \in Origins : RefreshRefused(t, o)

Next ==
    \/ \E p \in Posts : Server(p) \/ RefreshCrash(p) \/ Unheard(p)
    \/ \E k \in Tokens : RowGone(k)
    \/ AccessExpires
    \/ \E t \in Tabs :
          \/ \E q \in Requests : Send(t, q) \/ Settle(t, q) \/ SetSessionUser(t, q)
          \/ \E o \in Origins : GiveUp(t, o)
          \/ Hear(t) \/ Reload(t) \/ SignIn(t)
          \/ LogoutSend(t) \/ LogoutDelete(t) \/ LogoutFinish(t)

(* The server works on what it received and the tab hears the answer, or   *)
(* its timeout ends the wait.                                              *)
Fairness ==
    /\ \A p \in Posts : WF_vars(Server(p))
    /\ \A t \in Tabs : WF_vars(Hear(t))

Spec == Init /\ [][Next]_vars /\ Fairness

-----------------------------------------------------------------------------
(* A sign-in has at most one live refresh token, counting the refreshes    *)
(* that have consumed one and not yet issued the next: rotation, with two  *)
(* refreshes of one token racing, never forks a session.                   *)
Consuming(l) == {p \in Posts : post[p].at = "consumed" /\ post[p].login = l}
OneRowPerLogin ==
    \A l \in 1..MaxLogins :
       /\ \A j, k \in LiveOf(l) : j = k
       /\ \A p, r \in Consuming(l) : p = r
       /\ LiveOf(l) = {} \/ Consuming(l) = {}

(* Once a sign-in's row was deleted by a logout, a revocation or its age,  *)
(* no refresh that was under way brings the sign-in back.                  *)
RevokedForGood == \A l \in revoked : LiveOf(l) = {} /\ Consuming(l) = {}

(* With one tab: a tab that shows its user as signed in has tokens to send *)
(* (every place that clears the storage tells the tab).                    *)
SignedInHasTokens == \A t \in Tabs : auth[t] = "in" => stored # None

(* With one tab: the client only drops a session after a logout, the loss  *)
(* of an answer, a server failure or the end of the row; requests that     *)
(* expire together and a page mounted twice do not make it lose one.       *)
DroppedForCause ==
    [][\A t \in Tabs : auth[t] \in {"in", "loading"} /\ auth'[t] = "out" => excused']_vars

(* The requests that wait for another one's refresh are all sent again or  *)
(* rejected.                                                               *)
Queued(t) == {q \in Requests : request[t][q].pc = "queued"}
QueueServed == \A t \in Tabs : Queued(t) # {} ~> Queued(t) = {}

(* The browser does not send one refresh token twice at the same time.     *)
NoParallelRefresh ==
    \A p, r \in Posts :
       p # r /\ post[p].at \in {"sent", "found"} /\ post[p].waits
             /\ post[r].at \in {"sent", "found"} /\ post[r].waits
          => post[p].token # post[r].token
=============================================================================
