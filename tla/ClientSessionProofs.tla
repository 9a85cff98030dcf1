------------------------- MODULE ClientSessionProofs -------------------------
(***************************************************************************)
(* Proofs about ClientSession, for any number of tabs, requests, tokens    *)
(* and sign-ins: its type correctness, that rotation never forks a         *)
(* sign-in, and that a revoked sign-in stays revoked; and, for a browser   *)
(* with one tab, that a page shown as signed in has tokens, that no token  *)
(* is sent twice at a time, and that a session is only dropped for cause.  *)
(***************************************************************************)
EXTENDS ClientSession, TLAPS

PostType == [at: Stages, waits: BOOLEAN, token: Tokens \cup {None}, login: 0..MaxLogins]
RequestType == [pc: {"idle", "sent", "queued", "leads"},
                bearer: {"none", "fresh", "stale"}, retry: BOOLEAN]
RequestsType == [Tabs -> [Requests -> RequestType]]

(* A refresh that was sent has a token, so that what an answer stores is   *)
(* one: this is what TypeOK lacks to be inductive.                         *)
PostHasToken == \A p \in Posts : post[p].at # "idle" => post[p].token \in Tokens
TypeInv == TypeOK /\ PostHasToken

LEMMA NewTokenFresh ==
    ASSUME TokensLeft
    PROVE  NewToken \in Tokens /\ NewToken \notin InUse
<1>1. PICK k \in Tokens : k \notin InUse
  BY DEF TokensLeft
<1>2. QED
  BY <1>1 DEF NewToken

LEMMA NoPostType == NoPost \in PostType /\ NoPost.at = "idle"
BY MaxLoginsAssumption DEF NoPost, PostType, Stages

LEMMA SentType ==
    ASSUME NEW k \in Tokens
    PROVE  Sent(k) \in PostType /\ Sent(k).token = k /\ Sent(k).at = "sent"
BY MaxLoginsAssumption DEF Sent, PostType, Stages

LEMMA NoRequestType == NoRequest \in RequestType
BY DEF NoRequest, RequestType

(* The server moves a refresh on; the client does not wait for it any more.*)
LEMMA MovedType ==
    ASSUME NEW r \in PostType, NEW stage \in Stages, NEW k \in Tokens \cup {None},
           NEW l \in 0..MaxLogins
    PROVE  /\ [r EXCEPT !.at = stage, !.token = k, !.login = l] \in PostType
           /\ [r EXCEPT !.at = stage, !.login = l] \in PostType
BY DEF PostType
LEMMA UnheardType ==
    ASSUME NEW r \in PostType
    PROVE  [r EXCEPT !.waits = FALSE] \in PostType
BY DEF PostType

(* What a step that changes one refresh has to establish.                  *)
LEMMA PostFrame ==
    ASSUME TypeInv, NEW p \in Posts, NEW st \in PostType,
           st.at # "idle" => st.token \in Tokens,
           post' = [post EXCEPT ![p] = st]
    PROVE  /\ post' \in [Posts -> PostType]
           /\ PostHasToken'
           /\ \A o \in Posts : post'[o] = IF o = p THEN st ELSE post[o]
BY DEF TypeInv, TypeOK, PostType, PostHasToken

LEMMA PostOK ==
    ASSUME TypeInv, NEW p \in Posts
    PROVE  post[p] \in PostType /\ (post[p].at # "idle" => post[p].token \in Tokens)
BY DEF TypeInv, TypeOK, PostHasToken, PostType

LEMMA MovesFrame ==
    ASSUME TypeInv, NEW p \in Posts, NEW stage \in Stages, NEW l \in 0..MaxLogins,
           post[p].at # "idle", Moves(p, stage, l)
    PROVE  /\ post' \in [Posts -> PostType] /\ PostHasToken'
           /\ post'[p].at = stage /\ post'[p].login = l /\ post'[p].token = post[p].token
           /\ \A o \in Posts \ {p} : post'[o] = post[o]
<1> DEFINE st == [post[p] EXCEPT !.at = stage, !.login = l]
<1>a. post[p] \in PostType /\ post[p].token \in Tokens
  BY PostOK
<1>1. st \in PostType
  BY <1>a, MovedType
<1>b. st.at = stage /\ st.token = post[p].token /\ st.login = l
  BY <1>a DEF PostType
<1>2. post' = [post EXCEPT ![p] = st]
  BY DEF Moves
<1>3. st.token \in Tokens
  BY <1>a, <1>b
<1> HIDE DEF st
<1>4. QED
  BY <1>1, <1>b, <1>2, <1>3, PostFrame

LEMMA TypeInit == Init => TypeInv
<1> SUFFICES ASSUME Init PROVE TypeInv
  OBVIOUS
<1>1. post \in [Posts -> PostType] /\ PostHasToken
  BY NoPostType DEF Init, PostHasToken
<1>2. request \in RequestsType
  BY NoRequestType DEF Init, RequestsType
<1>3. row \in [Tokens -> 0..MaxLogins]
  BY MaxLoginsAssumption DEF Init
<1>4. StorageOK
  BY DEF Init, StorageOK
<1>5. QED
  BY <1>1, <1>2, <1>3, <1>4 DEF Init, TypeInv, TypeOK, PostType, RequestsType, RequestType

LEMMA TypeServer ==
    ASSUME TypeInv, NEW p \in Posts, Server(p) \/ RefreshCrash(p) \/ Unheard(p)
    PROVE  TypeInv'
<1> USE DEF TypeInv, TypeOK
<1>1. ASSUME RefreshFind(p) PROVE TypeInv'
  <2>1. \E stage \in Stages \ {"idle"}, l \in 0..MaxLogins : Moves(p, stage, l)
    BY <1>1, MaxLoginsAssumption DEF RefreshFind, Stages, HasRow
  <2>2. post' \in [Posts -> PostType] /\ PostHasToken'
    BY <1>1, <2>1, MovesFrame DEF RefreshFind
  <2>3. QED
    BY <1>1, <2>2 DEF RefreshFind, StorageOK, PostType, storage, tab, server
<1>2. ASSUME RefreshDelete(p) PROVE TypeInv'
  <2>1. \E stage \in Stages \ {"idle"}, l \in 0..MaxLogins : Moves(p, stage, l)
    BY <1>2, PostOK, MaxLoginsAssumption DEF RefreshDelete, Stages, PostType
  <2>2. post' \in [Posts -> PostType] /\ PostHasToken'
    BY <1>2, <2>1, MovesFrame DEF RefreshDelete
  <2>3. row' \in [Tokens -> 0..MaxLogins]
    <3>1. 0 \in 0..MaxLogins
      BY MaxLoginsAssumption
    <3>2. QED
      BY <1>2, <3>1 DEF RefreshDelete
  <2>4. QED
    BY <1>2, <2>2, <2>3 DEF RefreshDelete, StorageOK, PostType, storage, tab
<1>3. ASSUME RefreshPersist(p) PROVE TypeInv'
  <2> DEFINE st == [post[p] EXCEPT !.at = "issued", !.token = NewToken, !.login = 0]
  <2>1. NewToken \in Tokens
    BY <1>3, NewTokenFresh DEF RefreshPersist
  <2>2. st \in PostType /\ st.token = NewToken
    <3>1. post[p] \in PostType
      BY PostOK
    <3>2. "issued" \in Stages /\ 0 \in 0..MaxLogins
      BY MaxLoginsAssumption DEF Stages
    <3>3. st \in PostType
      BY <2>1, <3>1, <3>2, MovedType
    <3>4. st.token = NewToken
      BY <3>1 DEF PostType
    <3>5. QED
      BY <3>3, <3>4
  <2>3. post' = [post EXCEPT ![p] = st]
    BY <1>3 DEF RefreshPersist
  <2> HIDE DEF st
  <2>4. post' \in [Posts -> PostType] /\ PostHasToken'
    BY <2>1, <2>2, <2>3, PostFrame
  <2>5. row' \in [Tokens -> 0..MaxLogins]
    BY <1>3, PostOK DEF RefreshPersist, PostType
  <2>6. QED
    BY <1>3, <2>4, <2>5 DEF RefreshPersist, StorageOK, PostType, storage, tab
<1>4. ASSUME RefreshCrash(p) PROVE TypeInv'
  <2>1. post' \in [Posts -> PostType] /\ PostHasToken'
    BY <1>4, MovesFrame, MaxLoginsAssumption DEF RefreshCrash, Stages
  <2>2. QED
    BY <1>4, <2>1 DEF RefreshCrash, StorageOK, PostType, storage, tab, server
<1>5. ASSUME Unheard(p) PROVE TypeInv'
  <2>1. post' \in [Posts -> PostType] /\ PostHasToken'
    BY <1>5, PostFrame, NoPostType DEF Unheard
  <2>2. QED
    BY <1>5, <2>1 DEF Unheard, StorageOK, PostType, storage, tab, server
<1>6. QED
  BY <1>1, <1>2, <1>3, <1>4, <1>5 DEF Server

LEMMA RejectedType ==
    ASSUME request \in RequestsType, NEW t \in Tabs
    PROVE  Rejected(t) \in [Requests -> RequestType]
BY NoRequestType DEF RequestsType, Rejected

(* What a step that changes the requests of one tab has to establish.      *)
LEMMA RequestFrame ==
    ASSUME TypeInv, NEW t \in Tabs, NEW rs \in [Requests -> RequestType],
           request' = [request EXCEPT ![t] = rs]
    PROVE  request' \in RequestsType
BY DEF TypeInv, TypeOK, RequestsType, RequestType
LEMMA OneRequestFrame ==
    ASSUME TypeInv, NEW t \in Tabs, NEW q \in Requests, NEW r \in RequestType,
           request' = [request EXCEPT ![t][q] = r]
    PROVE  request' \in RequestsType
BY DEF TypeInv, TypeOK, RequestsType, RequestType
LEMMA RequestOK ==
    ASSUME TypeInv
    PROVE  /\ request \in RequestsType
           /\ \A t \in Tabs, q \in Requests : request[t][q] \in RequestType
BY DEF TypeInv, TypeOK, RequestsType, RequestType

LEMMA TypeRequest ==
    ASSUME TypeInv, NEW t \in Tabs, NEW q \in Requests,
           Send(t, q) \/ Settle(t, q) \/ SetSessionUser(t, q)
    PROVE  TypeInv'
<1> USE DEF TypeInv, TypeOK
<1>a. request[t][q] \in RequestType
  BY RequestOK
<1>1. ASSUME Send(t, q) PROVE TypeInv'
  <2>1. [pc |-> "sent", bearer |-> access, retry |-> FALSE] \in RequestType
    BY DEF RequestType, StorageOK
  <2>2. request' \in RequestsType
    BY <1>1, <2>1, OneRequestFrame DEF Send
  <2>3. QED
    BY <1>1, <2>2 DEF Send, StorageOK, PostHasToken, RequestsType, RequestType, storage, server
<1>2. ASSUME Answered(t, q) PROVE TypeInv'
  <2>1. request' \in RequestsType
    BY <1>2, NoRequestType, OneRequestFrame DEF Answered
  <2>2. QED
    BY <1>2, <2>1 DEF Answered, StorageOK, PostHasToken, RequestsType, RequestType, storage, server
<1>3. ASSUME Queue(t, q) PROVE TypeInv'
  <2>1. [request[t][q] EXCEPT !.pc = "queued"] \in RequestType
    BY <1>a DEF RequestType
  <2>2. request' \in RequestsType
    BY <1>3, <2>1, OneRequestFrame DEF Queue
  <2>3. QED
    BY <1>3, <2>2 DEF Queue, StorageOK, PostHasToken, RequestsType, RequestType, storage, server
<1>4. ASSUME Lead(t, q) PROVE TypeInv'
  <2>1. [request[t][q] EXCEPT !.pc = "leads", !.retry = TRUE] \in RequestType
    BY <1>a DEF RequestType
  <2>2. request' \in RequestsType
    BY <1>4, <2>1, OneRequestFrame DEF Lead
  <2>3. <<t, "interceptor">> \in Posts /\ stored \in Tokens
    BY <1>4 DEF Lead, Posts, Origins, StorageOK
  <2>4. post' \in [Posts -> PostType] /\ PostHasToken'
    BY <1>4, <2>3, SentType, PostFrame DEF Lead
  <2>5. QED
    BY <1>4, <2>2, <2>4
       DEF Lead, StorageOK, RequestsType, RequestType, PostType, storage, server
<1>5. ASSUME LeadWithoutToken(t, q) PROVE TypeInv'
  <2>1. [Rejected(t) EXCEPT ![q] = NoRequest] \in [Requests -> RequestType]
    BY RequestOK, RejectedType, NoRequestType
  <2>2. request' \in RequestsType
    BY <1>5, <2>1, RequestFrame DEF LeadWithoutToken
  <2>3. QED
    BY <1>5, <2>2 DEF LeadWithoutToken, ClearStorage, ShowsOut, Shows, StorageOK, PostHasToken,
       RequestsType, RequestType, server
<1>6. ASSUME SetSessionUser(t, q) PROVE TypeInv'
  <2>1. request' \in RequestsType
    BY <1>6, NoRequestType, OneRequestFrame DEF SetSessionUser
  <2>2. StorageOK'
    BY <1>6 DEF SetSessionUser, StorageOK
  <2>3. QED
    BY <1>6, <2>1, <2>2 DEF SetSessionUser, PostHasToken, RequestsType, RequestType, server
<1>7. QED
  BY <1>1, <1>2, <1>3, <1>4, <1>5, <1>6 DEF Settle

LEMMA ClearedOK == ASSUME ClearStorage PROVE StorageOK'
BY DEF ClearStorage, StorageOK

LEMMA StoredOK ==
    ASSUME TypeInv, NEW k \in Tokens, Store(k), storedUser' \in BOOLEAN
    PROVE  StorageOK'
BY TokensAssumption DEF Store, StorageOK

(* The catch of the interceptor and that of the mount.                     *)
LEMMA FailsType ==
    ASSUME TypeInv, NEW t \in Tabs, NEW o \in Origins, Fails(t, o)
    PROVE  /\ StorageOK' /\ request' \in RequestsType
           /\ auth' \in [Tabs -> {"loading", "in", "out"}]
           /\ user' \in [Tabs -> BOOLEAN] /\ refreshing' \in [Tabs -> BOOLEAN]
<1>1. StorageOK'
  BY ClearedOK DEF Fails, InterceptorFails
<1>2. request' \in RequestsType
  BY RequestOK, RejectedType, RequestFrame DEF Fails, InterceptorFails
<1>3. QED
  BY <1>1, <1>2 DEF Fails, InterceptorFails, ShowsOut, Shows, TypeInv, TypeOK

LEMMA TypeHears ==
    ASSUME TypeInv, NEW t \in Tabs, Hear(t) \/ \E o \in Origins : GiveUp(t, o)
    PROVE  TypeInv'
<1> USE DEF TypeInv, TypeOK
<1>1. ASSUME RefreshSucceeds(t) PROVE TypeInv'
  <2> DEFINE p == <<t, "interceptor">>
  <2>1. p \in Posts /\ post[p].at = "issued"
    BY <1>1 DEF RefreshSucceeds, Posts, Origins
  <2>2. post[p].token \in Tokens
    BY <2>1, PostOK
  <2>3. post' \in [Posts -> PostType] /\ PostHasToken'
    BY <1>1, <2>1, NoPostType, PostFrame DEF RefreshSucceeds
  <2>4. StorageOK'
    <3>1. storedUser' \in BOOLEAN
      BY <1>1 DEF RefreshSucceeds, StorageOK
    <3>2. QED
      BY <1>1, <2>2, <3>1, StoredOK DEF RefreshSucceeds
  <2>5. request' \in RequestsType
    <3>1. Replayed(t) \in [Requests -> RequestType]
      <4>a. \A r \in RequestType : [r EXCEPT !.pc = "sent", !.bearer = "fresh"] \in RequestType
        BY DEF RequestType
      <4>1. \A q \in Requests :
              [request[t][q] EXCEPT !.pc = "sent", !.bearer = "fresh"] \in RequestType
        BY <4>a, RequestOK
      <4>2. QED
        BY <4>1, RequestOK DEF Replayed
    <3>2. QED
      BY <1>1, <3>1, RequestFrame DEF RefreshSucceeds
  <2>6. auth' \in [Tabs -> {"loading", "in", "out"}]
    BY <1>1 DEF RefreshSucceeds
  <2>7. QED
    BY <1>1, <2>3, <2>4, <2>5, <2>6
       DEF RefreshSucceeds, server, PostType, RequestsType, RequestType
<1>2. ASSUME RestoreSucceeds(t) PROVE TypeInv'
  <2>1. PICK o \in {"mount1", "mount2"} :
          /\ post[<<t, o>>].at = "issued"
          /\ Store(post[<<t, o>>].token) /\ UNCHANGED storedUser
          /\ Shows(t, "in") /\ user' = [user EXCEPT ![t] = TRUE]
          /\ post' = [post EXCEPT ![<<t, o>>] = NoPost]
          /\ UNCHANGED <<refreshing, request, logout, server, excused>>
    BY <1>2 DEF RestoreSucceeds
  <2>2. <<t, o>> \in Posts
    BY DEF Posts, Origins
  <2>3. post[<<t, o>>].token \in Tokens
    BY <2>1, <2>2, PostOK
  <2>4. post' \in [Posts -> PostType] /\ PostHasToken'
    BY <2>1, <2>2, NoPostType, PostFrame
  <2>5. StorageOK'
    <3>1. storedUser' \in BOOLEAN
      BY <2>1 DEF StorageOK
    <3>2. QED
      BY <2>1, <2>3, <3>1, StoredOK
  <2>6. QED
    BY <2>1, <2>4, <2>5 DEF Shows, server, PostType, RequestsType, RequestType
<1>3. ASSUME NEW o \in Origins, RefreshRefused(t, o) PROVE TypeInv'
  <2>1. <<t, o>> \in Posts
    BY DEF Posts
  <2>2. post' \in [Posts -> PostType] /\ PostHasToken'
    BY <1>3, <2>1, NoPostType, PostFrame DEF RefreshRefused
  <2>3. QED
    BY <1>3, <2>2, FailsType DEF RefreshRefused, server, PostType, RequestsType, RequestType
<1>4. ASSUME NEW o \in Origins, GiveUp(t, o) PROVE TypeInv'
  <2> DEFINE st == [post[<<t, o>>] EXCEPT !.waits = FALSE]
  <2>1. <<t, o>> \in Posts
    BY DEF Posts
  <2>2. st \in PostType /\ (st.at # "idle" => st.token \in Tokens)
    <3>1. post[<<t, o>>] \in PostType
      BY <2>1, PostOK
    <3>2. st \in PostType
      BY <3>1, UnheardType
    <3>3. st.at = post[<<t, o>>].at /\ st.token = post[<<t, o>>].token
      BY <3>1 DEF PostType
    <3>4. QED
      BY <2>1, <3>2, <3>3, PostOK
  <2>3. post' = [post EXCEPT ![<<t, o>>] = st]
    BY <1>4 DEF GiveUp
  <2> HIDE DEF st
  <2>4. post' \in [Posts -> PostType] /\ PostHasToken'
    BY <2>1, <2>2, <2>3, PostFrame
  <2>5. QED
    BY <1>4, <2>4, FailsType DEF GiveUp, server, PostType, RequestsType, RequestType
<1>5. QED
  BY <1>1, <1>2, <1>3, <1>4 DEF Hear

(* A page that is loaded again sends the stored token, or nothing.  What   *)
(* the server has in service goes on.                                      *)
LEMMA ReloadPosts ==
    ASSUME TypeInv, NEW t \in Tabs, Reload(t)
    PROVE  /\ post' \in [Posts -> PostType] /\ PostHasToken'
           /\ \A p \in Posts :
                 \/ /\ post'[p].at = post[p].at /\ post'[p].token = post[p].token
                    /\ post'[p].login = post[p].login
                 \/ post'[p] = Sent(stored)
<1> DEFINE quiet(p) == [post[p] EXCEPT !.waits = FALSE]
           hushed == [p \in Posts |-> IF p[1] = t THEN quiet(p) ELSE post[p]]
<1>1. /\ hushed \in [Posts -> PostType]
      /\ \A p \in Posts : /\ hushed[p].at = post[p].at /\ hushed[p].token = post[p].token
                          /\ hushed[p].login = post[p].login
  <2>1. \A p \in Posts : /\ quiet(p) \in PostType
                         /\ quiet(p).at = post[p].at /\ quiet(p).token = post[p].token
                         /\ quiet(p).login = post[p].login
    BY PostOK, UnheardType DEF PostType
  <2>2. QED
    BY <2>1, PostOK
<1>2. CASE stored # None /\ storedUser
  <2>1. stored \in Tokens
    BY <1>2 DEF TypeInv, TypeOK, StorageOK
  <2>2. post' = SentOnMount(t)
    BY <1>2 DEF Reload
  <2>3. post' \in [Posts -> PostType]
    BY <1>1, <2>1, <2>2, SentType DEF SentOnMount, Posts, Origins
  <2>4. \A p \in Posts : post'[p] = hushed[p] \/ post'[p] = Sent(stored)
    BY <1>1, <2>2 DEF SentOnMount, Posts
  <2>5. PostHasToken'
    <3>1. ASSUME NEW p \in Posts, post'[p].at # "idle" PROVE post'[p].token \in Tokens
      <4>1. CASE post'[p] = Sent(stored)
        BY <2>1, <4>1, SentType
      <4>2. CASE post'[p] = hushed[p]
        <5> HIDE DEF hushed
        <5>1. QED
          BY <1>1, <3>1, <4>2, PostOK
      <4>3. QED
        BY <2>4, <4>1, <4>2
    <3>2. QED
      BY <3>1 DEF PostHasToken
  <2>6. QED
    BY <1>1, <2>3, <2>4, <2>5
<1>3. CASE ~(stored # None /\ storedUser)
  <2>1. post' = hushed
    BY <1>3 DEF Reload
  <2> HIDE DEF hushed
  <2>2. PostHasToken'
    BY <1>1, <2>1, PostOK DEF PostHasToken
  <2>3. QED
    BY <1>1, <2>1, <2>2
<1>4. QED
  BY <1>2, <1>3

LEMMA TypeReload ==
    ASSUME TypeInv, NEW t \in Tabs, Reload(t)
    PROVE  TypeInv'
<1> USE DEF TypeInv, TypeOK
<1>1. request' \in RequestsType
  <2>1. [q \in Requests |-> NoRequest] \in [Requests -> RequestType]
    BY NoRequestType
  <2>2. QED
    BY <2>1, RequestFrame DEF Reload
<1>2. excused' \in BOOLEAN
  BY DEF Reload
<1>3. auth' \in [Tabs -> {"loading", "in", "out"}]
  BY DEF Reload, Shows
<1>4. QED
  BY <1>1, <1>2, <1>3, ReloadPosts
     DEF Reload, StorageOK, PostType, RequestsType, RequestType, storage, server

LEMMA TypeSession ==
    ASSUME TypeInv, NEW t \in Tabs,
           SignIn(t) \/ LogoutSend(t) \/ LogoutDelete(t) \/ LogoutFinish(t)
    PROVE  TypeInv'
<1> USE DEF TypeInv, TypeOK
<1>1. ASSUME SignIn(t) PROVE TypeInv'
  <2>1. NewToken \in Tokens
    BY <1>1, NewTokenFresh DEF SignIn
  <2>2. StorageOK'
    BY <1>1, <2>1, StoredOK DEF SignIn
  <2>3. row' \in [Tokens -> 0..MaxLogins] /\ revoked' \in SUBSET (1..MaxLogins)
    <3>1. PICK l \in 1..MaxLogins : /\ row' = [row EXCEPT ![NewToken] = l]
                                    /\ revoked' = revoked \ {l}
      BY <1>1 DEF SignIn
    <3>2. l \in 0..MaxLogins
      BY MaxLoginsAssumption
    <3>3. QED
      BY <3>1, <3>2
  <2>4. excused' \in BOOLEAN
    BY <1>1 DEF SignIn
  <2>5. QED
    BY <1>1, <2>2, <2>3, <2>4 DEF SignIn, Shows, PostHasToken
<1>2. ASSUME LogoutSend(t) PROVE TypeInv'
  BY <1>2 DEF LogoutSend, StorageOK, PostHasToken, storage, tab, server
<1>3. ASSUME LogoutDelete(t) PROVE TypeInv'
  <2>1. row' \in [Tokens -> 0..MaxLogins]
    <3>1. 0 \in 0..MaxLogins
      BY MaxLoginsAssumption
    <3>2. QED
      BY <1>3, <3>1 DEF LogoutDelete, DeletesRow
  <2>2. revoked' \in SUBSET (1..MaxLogins)
    <3>1. HasRow(logout[t]) => row[logout[t]] \in 1..MaxLogins
      BY MaxLoginsAssumption DEF HasRow
    <3>2. QED
      BY <1>3, <3>1 DEF LogoutDelete, DeletesRow
  <2>3. QED
    BY <1>3, <2>1, <2>2 DEF LogoutDelete, StorageOK, PostHasToken, storage, tab
<1>4. ASSUME LogoutFinish(t) PROVE TypeInv'
  BY <1>4, ClearedOK DEF LogoutFinish, ShowsOut, Shows, PostHasToken, server
<1>5. QED
  BY <1>1, <1>2, <1>3, <1>4

LEMMA TypeAges ==
    ASSUME TypeInv, AccessExpires
    PROVE  TypeInv'
<1> USE DEF TypeInv, TypeOK
<1>1. \A t \in Tabs, q \in Requests : Aged(request[t][q]) \in RequestType
  <2>1. \A r \in RequestType : [r EXCEPT !.bearer = "stale"] \in RequestType
    BY DEF RequestType
  <2>2. QED
    BY <2>1, RequestOK DEF Aged
<1>2. request' \in RequestsType
  BY <1>1 DEF AccessExpires, RequestsType
<1>3. QED
  BY <1>2 DEF AccessExpires, StorageOK, PostHasToken, RequestsType, RequestType, server

LEMMA TypeRowGone ==
    ASSUME TypeInv, NEW k \in Tokens, RowGone(k)
    PROVE  TypeInv'
<1> USE DEF TypeInv, TypeOK
<1>1. 0 \in 0..MaxLogins /\ row[k] \in 1..MaxLogins
  BY MaxLoginsAssumption DEF RowGone, HasRow
<1>2. row' \in [Tokens -> 0..MaxLogins] /\ revoked' \in SUBSET (1..MaxLogins)
  BY <1>1 DEF RowGone, DeletesRow
<1>3. QED
  BY <1>2 DEF RowGone, StorageOK, PostHasToken, storage, tab

LEMMA TypeStep == ASSUME TypeInv, [Next]_vars PROVE TypeInv'
<1>1. CASE UNCHANGED vars
  BY <1>1 DEF TypeInv, TypeOK, StorageOK, PostHasToken, vars, storage, tab, server
<1>2. CASE Next
  BY <1>2, TypeServer, TypeRequest, TypeHears, TypeReload, TypeSession, TypeAges, TypeRowGone
     DEF Next
<1>3. QED
  BY <1>1, <1>2

LEMMA TypeAlways == Spec => []TypeInv
<1>1. TypeInv /\ [Next]_vars => TypeInv'
  BY TypeStep
<1>2. QED
  BY TypeInit, <1>1, PTL DEF Spec

(* Whatever is lost, late, given up or reloaded, and with any number of    *)
(* tabs, the storage, the pages, the refreshes and the server's rows keep  *)
(* their types; in particular the three keys of localStorage agree.        *)
THEOREM SessionTypeCorrect == Spec => []TypeOK
<1>1. TypeInv => TypeOK
  BY DEF TypeInv
<1>2. QED
  BY TypeAlways, <1>1, PTL

-----------------------------------------------------------------------------
(* Rotation.  A refresh that found its token knows the sign-in of the row, *)
(* even if the row goes meanwhile: a token that is referred to is never    *)
(* given out again.  This is what makes the two properties inductive.      *)
InService == {"found", "consumed"}
KnowsLogin ==
    \A p \in Posts :
       /\ post[p].at \in InService => post[p].login # 0
       /\ post[p].at = "found" /\ row[post[p].token] # 0 => row[post[p].token] = post[p].login
RotationInv == KnowsLogin /\ OneRowPerLogin /\ RevokedForGood

(* Steps that only take rows and refreshes away, or revoke a sign-in that  *)
(* has neither any more.                                                   *)
LEMMA ShrinkFrame ==
    ASSUME TypeInv, RotationInv,
           \A k \in Tokens : row'[k] \in {0, row[k]},
           \A p \in Posts : post'[p].at \in InService =>
              /\ post'[p].at = post[p].at
              /\ post'[p].login = post[p].login /\ post'[p].token = post[p].token,
           \A l \in revoked' : l \in revoked \/ (LiveOf(l)' = {} /\ Consuming(l) = {})
    PROVE  RotationInv'
<1> USE DEF InService
<1>1. KnowsLogin'
  <2>1. \A p \in Posts : post'[p].at = "found" => post'[p].token \in Tokens
    BY DEF TypeInv, PostHasToken
  <2>2. QED
    BY <2>1 DEF RotationInv, KnowsLogin
<1>2. \A l \in 1..MaxLogins : LiveOf(l)' \subseteq LiveOf(l) /\ Consuming(l)' \subseteq Consuming(l)
  BY DEF LiveOf, Consuming
<1>3. OneRowPerLogin'
  BY <1>2 DEF RotationInv, OneRowPerLogin
<1>4. \A l \in revoked : l \in 1..MaxLogins
  BY DEF TypeInv, TypeOK
<1>5. RevokedForGood'
  <2>1. ASSUME NEW l \in revoked' PROVE LiveOf(l)' = {} /\ Consuming(l)' = {}
    <3>1. Consuming(l)' \subseteq Consuming(l)
      BY DEF Consuming
    <3>2. QED
      BY <1>2, <1>4, <2>1, <3>1 DEF RotationInv, RevokedForGood
  <2>2. QED
    BY <2>1 DEF RevokedForGood
<1>6. QED
  BY <1>1, <1>3, <1>5 DEF RotationInv

(* Deleting a row: its sign-in has no other, and no refresh on its way.    *)
LEMMA DeleteFrame ==
    ASSUME TypeInv, RotationInv, NEW k, UNCHANGED post, DeletesRow(k)
    PROVE  RotationInv'
<1>1. \A j \in Tokens : row'[j] = IF j = k THEN 0 ELSE row[j]
  BY DEF DeletesRow, TypeInv, TypeOK
<1>2. ASSUME NEW l \in revoked', l \notin revoked
      PROVE  LiveOf(l)' = {} /\ Consuming(l) = {}
  <2>1. HasRow(k) /\ l = row[k] /\ k \in LiveOf(l)
    BY <1>2 DEF DeletesRow, HasRow, LiveOf
  <2>2. l \in 1..MaxLogins
    BY <2>1, MaxLoginsAssumption DEF HasRow, TypeInv, TypeOK
  <2>3. LiveOf(l) = {k} /\ Consuming(l) = {}
    BY <2>1, <2>2 DEF RotationInv, OneRowPerLogin
  <2>4. l # 0
    BY <2>2
  <2>5. QED
    BY <1>1, <2>3, <2>4 DEF LiveOf
<1>3. QED
  BY <1>1, <1>2, ShrinkFrame DEF InService

LEMMA RotationInit == Init => RotationInv
<1> SUFFICES ASSUME Init PROVE RotationInv
  OBVIOUS
<1>1. \A p \in Posts : post[p].at = "idle"
  BY DEF Init, NoPost
<1>2. \A l \in 1..MaxLogins : LiveOf(l) = {} /\ Consuming(l) = {}
  BY <1>1 DEF Init, LiveOf, Consuming
<1>3. QED
  BY <1>1, <1>2 DEF Init, RotationInv, KnowsLogin, OneRowPerLogin, RevokedForGood, InService

(* A refresh that is refused, over or given up only leaves.                *)
LEMMA RotationRefused ==
    ASSUME TypeInv, RotationInv, NEW p \in Posts, post[p].at # "idle",
           Moves(p, "refused", 0), UNCHANGED revoked,
           UNCHANGED row \/ (row' = [row EXCEPT ![post[p].token] = 0])
    PROVE  RotationInv'
<1>1. \A o \in Posts : post'[o].at \in InService =>
         /\ post'[o].at = post[o].at
         /\ post'[o].login = post[o].login /\ post'[o].token = post[o].token
  BY MovesFrame, MaxLoginsAssumption DEF InService, Stages
<1>2. \A k \in Tokens : row'[k] \in {0, row[k]}
  BY DEF TypeInv, TypeOK
<1>3. QED
  BY <1>1, <1>2, ShrinkFrame

LEMMA RotationFind ==
    ASSUME TypeInv, RotationInv, NEW p \in Posts, RefreshFind(p)
    PROVE  RotationInv'
<1>1. post[p].at = "sent" /\ UNCHANGED <<row, revoked>>
  BY DEF RefreshFind, server
<1>2. CASE HasRow(post[p].token) /\ Moves(p, "found", row[post[p].token])
  <2>1. row[post[p].token] \in 0..MaxLogins /\ row[post[p].token] # 0
    BY <1>2 DEF HasRow, TypeInv, TypeOK
  <2>2. /\ post'[p].at = "found" /\ post'[p].login = row[post[p].token]
        /\ post'[p].token = post[p].token
        /\ \A o \in Posts \ {p} : post'[o] = post[o]
    BY <1>1, <1>2, <2>1, MovesFrame DEF Stages
  <2>3. KnowsLogin'
    BY <1>1, <2>1, <2>2 DEF RotationInv, KnowsLogin, InService
  <2>4. \A l : LiveOf(l)' = LiveOf(l) /\ Consuming(l)' = Consuming(l)
    BY <1>1, <2>2 DEF LiveOf, Consuming
  <2>5. QED
    BY <1>1, <2>3, <2>4 DEF RotationInv, OneRowPerLogin, RevokedForGood
<1>3. CASE Moves(p, "refused", 0)
  BY <1>1, <1>3, RotationRefused
<1>4. QED
  BY <1>2, <1>3 DEF RefreshFind

(* The refresh whose deletion counted takes the place of the row.          *)
LEMMA RotationDelete ==
    ASSUME TypeInv, RotationInv, NEW p \in Posts, RefreshDelete(p)
    PROVE  RotationInv'
<1>0. PICK k, l : k = post[p].token /\ l = post[p].login
  OBVIOUS
<1>1. post[p].at = "found" /\ row' = [row EXCEPT ![k] = 0] /\ UNCHANGED revoked
  BY <1>0 DEF RefreshDelete
<1>2. CASE HasRow(k) /\ Moves(p, "consumed", l)
  <2>1. k \in Tokens /\ row[k] = l /\ l \in 1..MaxLogins /\ k \in LiveOf(l)
    BY <1>0, <1>1, <1>2, MaxLoginsAssumption
       DEF HasRow, RotationInv, KnowsLogin, LiveOf, TypeInv, TypeOK
  <2>2. /\ post'[p].at = "consumed" /\ post'[p].login = l /\ post'[p].token = k
        /\ \A o \in Posts \ {p} : post'[o] = post[o]
    BY <1>0, <1>1, <1>2, <2>1, MovesFrame DEF Stages
  <2>3. \A j \in Tokens : row'[j] = IF j = k THEN 0 ELSE row[j]
    BY <1>1 DEF TypeInv, TypeOK
  <2>4. KnowsLogin'
    BY <2>1, <2>2, <2>3, MaxLoginsAssumption
       DEF RotationInv, KnowsLogin, InService, TypeInv, PostHasToken
  <2>5. LiveOf(l) = {k} /\ Consuming(l) = {} /\ l \notin revoked
    BY <2>1 DEF RotationInv, OneRowPerLogin, RevokedForGood
  <2>6. LiveOf(l)' = {} /\ Consuming(l)' = {p}
    <3>1. LiveOf(l)' = {}
      BY <2>1, <2>3, <2>5 DEF LiveOf
    <3>2. \A o \in Posts : o \in Consuming(l)' <=> o = p
      BY <2>2, <2>5 DEF Consuming
    <3>3. QED
      BY <3>1, <3>2 DEF Consuming
  <2>7. \A m \in 1..MaxLogins \ {l} : LiveOf(m)' = LiveOf(m) /\ Consuming(m)' = Consuming(m)
    BY <1>1, <2>1, <2>2, <2>3 DEF LiveOf, Consuming
  <2>8. OneRowPerLogin'
    <3>1. ASSUME NEW m \in 1..MaxLogins
          PROVE  /\ \A i, j \in LiveOf(m)' : i = j
                 /\ \A i, j \in Consuming(m)' : i = j
                 /\ LiveOf(m)' = {} \/ Consuming(m)' = {}
      BY <2>6, <2>7 DEF RotationInv, OneRowPerLogin
    <3>2. QED
      BY <3>1 DEF OneRowPerLogin
  <2>9. RevokedForGood'
    BY <1>1, <2>5, <2>7 DEF RotationInv, RevokedForGood, TypeInv, TypeOK
  <2>10. QED
    BY <2>4, <2>8, <2>9 DEF RotationInv
<1>3. CASE Moves(p, "refused", 0)
  BY <1>0, <1>1, <1>3, RotationRefused
<1>4. QED
  BY <1>0, <1>2, <1>3 DEF RefreshDelete

(* The refresh that took the place of the row gives it back.               *)
LEMMA RotationPersist ==
    ASSUME TypeInv, RotationInv, NEW p \in Posts, RefreshPersist(p)
    PROVE  RotationInv'
<1>0. PICK k, l : k = NewToken /\ l = post[p].login
  OBVIOUS
<1>1. /\ k \in Tokens /\ row[k] = 0 /\ \A o \in Posts : post[o].token # k
      /\ post[p].at = "consumed" /\ l \in 1..MaxLogins
  BY <1>0, NewTokenFresh, PostOK, MaxLoginsAssumption
     DEF RefreshPersist, InUse, RotationInv, KnowsLogin, InService, PostType
<1>2. post'[p].at = "issued" /\ \A o \in Posts \ {p} : post'[o] = post[o]
  BY PostOK DEF RefreshPersist, TypeInv, TypeOK, PostType
<1>3. \A j \in Tokens : row'[j] = IF j = k THEN l ELSE row[j]
  BY <1>0 DEF RefreshPersist, TypeInv, TypeOK
<1>4. UNCHANGED revoked
  BY DEF RefreshPersist
<1>5. KnowsLogin'
  BY <1>1, <1>2, <1>3 DEF RotationInv, KnowsLogin, InService, TypeInv, PostHasToken
<1>6. Consuming(l) = {p} /\ LiveOf(l) = {} /\ l \notin revoked
  BY <1>0, <1>1 DEF RotationInv, OneRowPerLogin, RevokedForGood, Consuming
<1>7. \A j \in LiveOf(l)' : j = k
  BY <1>1, <1>3, <1>6 DEF LiveOf
<1>8. Consuming(l)' = {}
  BY <1>2, <1>6 DEF Consuming
<1>9. \A m \in 1..MaxLogins \ {l} : LiveOf(m)' = LiveOf(m) /\ Consuming(m)' = Consuming(m)
  BY <1>0, <1>1, <1>2, <1>3 DEF LiveOf, Consuming
<1>10. OneRowPerLogin'
  <2>1. ASSUME NEW m \in 1..MaxLogins
        PROVE  /\ \A i, j \in LiveOf(m)' : i = j
               /\ \A i, j \in Consuming(m)' : i = j
               /\ LiveOf(m)' = {} \/ Consuming(m)' = {}
    BY <1>7, <1>8, <1>9 DEF RotationInv, OneRowPerLogin
  <2>2. QED
    BY <2>1 DEF OneRowPerLogin
<1>11. RevokedForGood'
  BY <1>4, <1>6, <1>9 DEF RotationInv, RevokedForGood, TypeInv, TypeOK
<1>12. QED
  BY <1>5, <1>10, <1>11 DEF RotationInv

(* A sign-in takes a number and a token that nothing refers to.            *)
LEMMA RotationSignIn ==
    ASSUME TypeInv, RotationInv, NEW t \in Tabs, SignIn(t)
    PROVE  RotationInv'
<1>0. PICK k, l : /\ k = NewToken /\ l \in 1..MaxLogins
                  /\ LiveOf(l) = {} /\ \A p \in Posts : post[p].login # l
                  /\ row' = [row EXCEPT ![k] = l]
                  /\ revoked' = revoked \ {l}
  BY DEF SignIn
<1>1. k \in Tokens /\ row[k] = 0 /\ \A o \in Posts : post[o].token # k
  BY <1>0, NewTokenFresh DEF SignIn, InUse
<1>2. UNCHANGED post
  BY DEF SignIn
<1>3. \A j \in Tokens : row'[j] = IF j = k THEN l ELSE row[j]
  BY <1>0 DEF TypeInv, TypeOK
<1>4. KnowsLogin'
  BY <1>1, <1>2, <1>3 DEF RotationInv, KnowsLogin, InService, TypeInv, PostHasToken
<1>5. \A j \in LiveOf(l)' : j = k
  BY <1>0, <1>3 DEF LiveOf
<1>6. Consuming(l)' = {}
  BY <1>0, <1>2 DEF Consuming
<1>7. \A m \in 1..MaxLogins \ {l} : LiveOf(m)' = LiveOf(m) /\ Consuming(m)' = Consuming(m)
  BY <1>0, <1>1, <1>2, <1>3 DEF LiveOf, Consuming
<1>8. OneRowPerLogin'
  <2>1. ASSUME NEW m \in 1..MaxLogins
        PROVE  /\ \A i, j \in LiveOf(m)' : i = j
               /\ \A i, j \in Consuming(m)' : i = j
               /\ LiveOf(m)' = {} \/ Consuming(m)' = {}
    BY <1>5, <1>6, <1>7 DEF RotationInv, OneRowPerLogin
  <2>2. QED
    BY <2>1 DEF OneRowPerLogin
<1>9. RevokedForGood'
  BY <1>0, <1>7 DEF RotationInv, RevokedForGood, TypeInv, TypeOK
<1>10. QED
  BY <1>4, <1>8, <1>9 DEF RotationInv

(* The client's steps send and forget; they take no row.                   *)
LEMMA RotationClient ==
    ASSUME TypeInv, RotationInv, NEW t \in Tabs,
           \/ \E q \in Requests : Send(t, q) \/ Settle(t, q) \/ SetSessionUser(t, q)
           \/ \E o \in Origins : GiveUp(t, o)
           \/ Hear(t) \/ Reload(t) \/ LogoutSend(t) \/ LogoutFinish(t)
    PROVE  RotationInv'
<1>1. ASSUME UNCHANGED <<row, revoked>>,
             \A p \in Posts : post'[p].at \in InService =>
                /\ post'[p].at = post[p].at
                /\ post'[p].login = post[p].login /\ post'[p].token = post[p].token
      PROVE  RotationInv'
  BY <1>1, ShrinkFrame
<1>2. ASSUME NEW q \in Requests, Lead(t, q) PROVE RotationInv'
  <2>1. \A p \in Posts : post'[p] = post[p] \/ post'[p].at = "sent"
    BY <1>2 DEF Lead, TypeInv, TypeOK, Sent
  <2>2. QED
    BY <1>1, <1>2, <2>1 DEF Lead, server, InService
<1>3. ASSUME NEW q \in Requests,
             \/ Send(t, q) \/ Answered(t, q) \/ Queue(t, q) \/ LeadWithoutToken(t, q)
             \/ SetSessionUser(t, q)
      PROVE  RotationInv'
  BY <1>1, <1>3 DEF Send, Answered, Queue, LeadWithoutToken, SetSessionUser, server
<1>4. ASSUME NEW o \in Origins, GiveUp(t, o) PROVE RotationInv'
  <2>1. \A p \in Posts : /\ post'[p].at = post[p].at
                         /\ post'[p].login = post[p].login /\ post'[p].token = post[p].token
    BY <1>4, PostOK DEF GiveUp, TypeInv, TypeOK, PostType
  <2>2. QED
    BY <1>1, <1>4, <2>1 DEF GiveUp, server
<1>5. ASSUME NEW o \in Origins, post' = [post EXCEPT ![<<t, o>>] = NoPost], UNCHANGED server
      PROVE  RotationInv'
  <2>1. \A p \in Posts : post'[p] = post[p] \/ post'[p].at = "idle"
    BY <1>5 DEF TypeInv, TypeOK, NoPost
  <2>2. QED
    BY <1>1, <1>5, <2>1 DEF server, InService
<1>6. CASE Hear(t)
  BY <1>5, <1>6 DEF Hear, RefreshSucceeds, RestoreSucceeds, RefreshRefused, Origins, server
<1>7. CASE Reload(t)
  <2>1. \A p \in Posts : Sent(stored).at \notin InService
    BY DEF Sent, InService
  <2>2. QED
    BY <1>1, <1>7, <2>1, ReloadPosts DEF Reload, server
<1>8. CASE LogoutSend(t) \/ LogoutFinish(t)
  BY <1>1, <1>8 DEF LogoutSend, LogoutFinish, server
<1>9. QED
  BY <1>2, <1>3, <1>4, <1>6, <1>7, <1>8 DEF Settle

LEMMA RotationStep == ASSUME TypeInv, RotationInv, [Next]_vars PROVE RotationInv'
<1>1. CASE UNCHANGED vars
  BY <1>1, ShrinkFrame DEF vars, server
<1>2. ASSUME NEW p \in Posts, Server(p) PROVE RotationInv'
  BY <1>2, RotationFind, RotationDelete, RotationPersist DEF Server
<1>3. ASSUME NEW p \in Posts, RefreshCrash(p) PROVE RotationInv'
  BY <1>3, RotationRefused DEF RefreshCrash, server
<1>4. ASSUME NEW p \in Posts, Unheard(p) PROVE RotationInv'
  <2>1. \A o \in Posts : post'[o] = post[o] \/ post'[o].at = "idle"
    BY <1>4 DEF Unheard, TypeInv, TypeOK, NoPost
  <2>2. QED
    BY <1>4, <2>1, ShrinkFrame DEF Unheard, server, InService
<1>5. ASSUME NEW k \in Tokens, RowGone(k) PROVE RotationInv'
  BY <1>5, DeleteFrame DEF RowGone
<1>6. CASE AccessExpires
  BY <1>6, ShrinkFrame DEF AccessExpires, server
<1>7. ASSUME NEW t \in Tabs, LogoutDelete(t) PROVE RotationInv'
  BY <1>7, DeleteFrame DEF LogoutDelete
<1>8. QED
  BY <1>1, <1>2, <1>3, <1>4, <1>5, <1>6, <1>7, RotationSignIn, RotationClient DEF Next

LEMMA RotationAlways == Spec => []RotationInv
<1>1. TypeInv /\ RotationInv /\ [Next]_vars => RotationInv'
  BY RotationStep
<1>2. QED
  BY RotationInit, TypeAlways, <1>1, PTL DEF Spec

(* Rotation never forks a session: of the refreshes that race with one     *)
(* token, in any number of tabs, one gets the next token, and a sign-in    *)
(* has one live token at most.                                             *)
THEOREM NeverForked == Spec => []OneRowPerLogin
<1>1. RotationInv => OneRowPerLogin
  BY DEF RotationInv
<1>2. QED
  BY RotationAlways, <1>1, PTL

(* A logout, a revocation or the end of a row is final, whatever refresh   *)
(* had found the row before it went.                                       *)
THEOREM StaysRevoked == Spec => []RevokedForGood
<1>1. RotationInv => RevokedForGood
  BY DEF RotationInv
<1>2. QED
  BY RotationAlways, <1>1, PTL

-----------------------------------------------------------------------------
(* One tab.  The last three properties are about a browser with one tab:   *)
(* another tab clears or overwrites the localStorage without telling this  *)
(* one, and may refresh with the same token.                               *)
OneTab == \A t, u \in Tabs : t = u

(* With one tab every step that clears the storage tells it.               *)
LEMMA SignedInStep ==
    ASSUME OneTab, TypeInv, SignedInHasTokens, [Next]_vars
    PROVE  SignedInHasTokens'
<1> USE DEF OneTab, TypeInv, TypeOK, SignedInHasTokens
<1>1. ASSUME UNCHANGED <<stored, auth>> PROVE SignedInHasTokens'
  BY <1>1
<1>2. ASSUME NEW t \in Tabs, auth'[t] # "in" PROVE SignedInHasTokens'
  BY <1>2
<1>3. ASSUME stored' \in Tokens PROVE SignedInHasTokens'
  BY <1>3, TokensAssumption
<1>4. ASSUME NEW p \in Posts, Server(p) \/ RefreshCrash(p) \/ Unheard(p)
      PROVE  UNCHANGED <<stored, auth>>
  BY <1>4 DEF Server, RefreshFind, RefreshDelete, RefreshPersist, RefreshCrash, Unheard, storage, tab
<1>5. ASSUME NEW t \in Tabs, NEW q \in Requests,
             Send(t, q) \/ Settle(t, q) \/ SetSessionUser(t, q)
      PROVE  SignedInHasTokens'
  <2>1. CASE LeadWithoutToken(t, q)
    BY <1>2, <2>1 DEF LeadWithoutToken, ShowsOut, Shows
  <2>2. CASE ~LeadWithoutToken(t, q)
    BY <1>1, <1>5, <2>2 DEF Settle, Send, Answered, Queue, Lead, SetSessionUser, storage
  <2>3. QED
    BY <2>1, <2>2
<1>6. ASSUME NEW t \in Tabs, NEW o \in Origins, Fails(t, o)
      PROVE  SignedInHasTokens'
  BY <1>2, <1>6 DEF Fails, InterceptorFails, ShowsOut, Shows
<1>7. ASSUME NEW t \in Tabs, RefreshSucceeds(t) \/ RestoreSucceeds(t)
      PROVE  SignedInHasTokens'
  <2>1. \E o \in Origins : post[<<t, o>>].at = "issued" /\ stored' = post[<<t, o>>].token
    BY <1>7 DEF RefreshSucceeds, RestoreSucceeds, Store, Origins
  <2>2. stored' \in Tokens
    BY <2>1, PostOK DEF Posts
  <2>3. QED
    BY <1>3, <2>2
<1>8. ASSUME NEW t \in Tabs, Reload(t) PROVE SignedInHasTokens'
  BY <1>2, <1>8 DEF Reload, Shows
<1>9. ASSUME NEW t \in Tabs, SignIn(t) PROVE SignedInHasTokens'
  BY <1>3, <1>9, NewTokenFresh DEF SignIn, Store
<1>10. ASSUME NEW t \in Tabs, LogoutSend(t) \/ LogoutDelete(t) \/ LogoutFinish(t)
       PROVE  SignedInHasTokens'
  BY <1>1, <1>2, <1>10 DEF LogoutSend, LogoutDelete, LogoutFinish, ShowsOut, Shows, storage, tab
<1>11. CASE AccessExpires \/ UNCHANGED vars \/ \E k \in Tokens : RowGone(k)
  BY <1>1, <1>11 DEF AccessExpires, RowGone, vars, storage, tab
<1>12. QED
  BY <1>1, <1>4, <1>5, <1>6, <1>7, <1>8, <1>9, <1>10, <1>11
     DEF Next, Hear, RefreshRefused, GiveUp

(* A tab that shows its user as signed in has tokens to send.              *)
THEOREM SignedInTabHasTokens == OneTab => (Spec => []SignedInHasTokens)
<1> SUFFICES ASSUME OneTab PROVE Spec => []SignedInHasTokens
  OBVIOUS
<1>1. Init => SignedInHasTokens
  BY DEF Init, SignedInHasTokens
<1>2. TypeInv /\ SignedInHasTokens /\ [Next]_vars => SignedInHasTokens'
  BY SignedInStep
<1>3. QED
  BY TypeAlways, <1>1, <1>2, PTL DEF Spec

-----------------------------------------------------------------------------
(* Who waits.  The restoration of the session waits exactly while the page *)
(* is loading, alone; the second effect of a mount never sends.            *)
Waits(p) == post[p].waits
TabWaits(t) ==
    /\ post[<<t, "mount2">>] = NoPost
    /\ Waits(<<t, "mount1">>) <=> auth[t] = "loading"
    /\ auth[t] = "loading" => /\ ~Waits(<<t, "interceptor">>) /\ logout[t] = None
                              /\ \A q \in Requests : request[t][q].pc = "idle"
WaitInv ==
    /\ \A p \in Posts : Waits(p) => post[p].at # "idle"
    /\ \A t \in Tabs : TabWaits(t)

LEMMA PostsOf == ASSUME NEW t \in Tabs, NEW o \in Origins PROVE <<t, o>> \in Posts
BY DEF Posts

LEMMA OneWaits ==
    ASSUME OneTab, WaitInv, NEW p \in Posts, NEW r \in Posts, Waits(p), Waits(r)
    PROVE  p = r
<1>1. PICK t \in Tabs, o \in Origins, w \in Origins : p = <<t, o>> /\ r = <<t, w>>
  BY DEF OneTab, Posts
<1>2. ~Waits(<<t, "mount2">>) /\ (Waits(<<t, "mount1">>) => ~Waits(<<t, "interceptor">>))
  BY DEF WaitInv, TabWaits, Waits, NoPost
<1>3. QED
  BY <1>1, <1>2 DEF Origins

(* Of a step of the server nothing but the refresh it is about changes.    *)
LEMMA ServerMoves ==
    ASSUME TypeInv, NEW p \in Posts, Server(p) \/ RefreshCrash(p)
    PROVE  /\ UNCHANGED <<storage, tab, logout>>
           /\ post[p].at # "idle" /\ post'[p].at # "idle" /\ post'[p].waits = post[p].waits
           /\ \A o \in Posts \ {p} : post'[o] = post[o]
<1>a. post[p] \in PostType /\ post \in [Posts -> PostType]
  BY PostOK DEF TypeInv, TypeOK, PostType
<1>1. ASSUME NEW stage \in Stages \ {"idle"}, NEW l, Moves(p, stage, l)
      PROVE  /\ post'[p].at # "idle" /\ post'[p].waits = post[p].waits
             /\ \A o \in Posts \ {p} : post'[o] = post[o]
  BY <1>1, <1>a DEF Moves, PostType
<1>2. CASE RefreshPersist(p)
  <2>1. post'[p].at = "issued" /\ post'[p].waits = post[p].waits
    BY <1>2, <1>a DEF RefreshPersist, PostType
  <2>2. QED
    BY <1>2, <1>a, <2>1 DEF RefreshPersist
<1>3. QED
  BY <1>1, <1>2 DEF Server, RefreshFind, RefreshDelete, RefreshCrash, Stages

LEMMA WaitInit == Init => WaitInv
BY DEF Init, WaitInv, TabWaits, Waits, NoPost, Posts, Origins

LEMMA WaitServer ==
    ASSUME TypeInv, WaitInv, NEW p \in Posts, Server(p) \/ RefreshCrash(p) \/ Unheard(p)
    PROVE  WaitInv'
<1>1. ASSUME Server(p) \/ RefreshCrash(p) PROVE WaitInv'
  <2>1. \A o \in Posts : Waits(o)' <=> Waits(o)
    BY <1>1, ServerMoves DEF Waits
  <2>2. \A t \in Tabs : p # <<t, "mount2">>
    <3>1. post[p].at # "idle"
      BY <1>1, ServerMoves
    <3>2. \A t \in Tabs : post[<<t, "mount2">>].at = "idle"
      BY NoPostType DEF WaitInv, TabWaits, Waits
    <3>3. QED
      BY <3>1, <3>2
  <2>3. \A t \in Tabs : TabWaits(t)'
    <3>1. UNCHANGED <<auth, logout, request>>
      BY <1>1, ServerMoves DEF tab
    <3>2. ASSUME NEW t \in Tabs PROVE TabWaits(t)'
      <4>1. /\ post'[<<t, "mount2">>] = post[<<t, "mount2">>]
            /\ \A o \in Origins : Waits(<<t, o>>)' <=> Waits(<<t, o>>)
        BY <1>1, <2>1, <2>2, ServerMoves, PostsOf DEF Origins
      <4>2. QED
        BY <3>1, <4>1 DEF WaitInv, TabWaits, Origins
    <3>3. QED
      BY <3>2
  <2>4. QED
    BY <1>1, <2>1, <2>3, ServerMoves DEF WaitInv
<1>2. ASSUME Unheard(p) PROVE WaitInv'
  <2>1. post'[p] = NoPost /\ (\A o \in Posts \ {p} : post'[o] = post[o]) /\ ~Waits(p)
    BY <1>2 DEF Unheard, TypeInv, TypeOK, Waits
  <2>2. \A o \in Posts : Waits(o)' <=> Waits(o)
    BY <2>1, <1>2, PostOK DEF Waits, NoPost, PostType
  <2>3. UNCHANGED <<auth, logout, request>>
    BY <1>2 DEF Unheard, tab
  <2>4. \A t \in Tabs : TabWaits(t)'
    BY <2>1, <2>2, <2>3, PostsOf DEF WaitInv, TabWaits, Origins
  <2>5. QED
    BY <2>1, <2>2, <2>4 DEF WaitInv
<1>3. QED
  BY <1>1, <1>2

LEMMA PostOf ==
    ASSUME TypeInv, NEW t \in Tabs, NEW o \in Origins, NEW st,
           post' = [post EXCEPT ![<<t, o>>] = st]
    PROVE  \A w \in Origins : post'[<<t, w>>] = IF w = o THEN st ELSE post[<<t, w>>]
BY PostsOf DEF TypeInv, TypeOK

LEMMA WaitTab ==
    ASSUME OneTab, NEW t \in Tabs, TabWaits(t)',
           \A o \in Origins : Waits(<<t, o>>)' => post'[<<t, o>>].at # "idle"
    PROVE  WaitInv'
<1>1. \A u \in Tabs : u = t
  BY DEF OneTab
<1>2. \A p \in Posts : \E o \in Origins : p = <<t, o>>
  BY <1>1 DEF Posts
<1>3. QED
  BY <1>1, <1>2 DEF WaitInv

LEMMA WaitsOf ==
    ASSUME TypeInv, WaitInv, NEW t \in Tabs
    PROVE  /\ TabWaits(t) /\ ~Waits(<<t, "mount2">>)
           /\ \A o \in Origins : Waits(<<t, o>>) => post[<<t, o>>].at # "idle"
<1>1. TabWaits(t)
  BY DEF WaitInv
<1>2. ~Waits(<<t, "mount2">>)
  <2>1. ~NoPost.waits
    BY DEF NoPost
  <2>2. QED
    BY <1>1, <2>1 DEF TabWaits, Waits
<1>3. \A o \in Origins : Waits(<<t, o>>) => post[<<t, o>>].at # "idle"
  BY PostsOf DEF WaitInv
<1>4. QED
  BY <1>1, <1>2, <1>3

(* A request in flight belongs to a page that is not loading.              *)
LEMMA WaitRequest ==
    ASSUME OneTab, TypeInv, WaitInv, NEW t \in Tabs, NEW q \in Requests,
           Send(t, q) \/ Settle(t, q) \/ SetSessionUser(t, q)
    PROVE  WaitInv'
<1>a. auth[t] # "loading"
  <2>1. auth[t] = "in" \/ request[t][q].pc = "sent"
    BY DEF Send, Settle, Answered, Queue, Lead, LeadWithoutToken, Unauthorized, SetSessionUser
  <2>2. QED
    BY <2>1, WaitsOf DEF TabWaits
<1>b. auth'[t] # "loading"
  BY <1>a DEF Send, Settle, Answered, Queue, Lead, LeadWithoutToken, SetSessionUser,
     ShowsOut, Shows, TypeInv, TypeOK
<1>1. CASE UNCHANGED post
  <2>1. TabWaits(t)'
    BY <1>a, <1>b, <1>1, WaitsOf DEF TabWaits, Waits
  <2>2. QED
    BY <1>1, <2>1, WaitsOf, WaitTab DEF Waits
<1>2. CASE Lead(t, q)
  <2>1. \A w \in Origins :
           post'[<<t, w>>] = IF w = "interceptor" THEN Sent(stored) ELSE post[<<t, w>>]
    BY <1>2, PostOf DEF Lead, Origins
  <2>2. TabWaits(t)'
    BY <1>a, <1>b, <2>1, WaitsOf DEF TabWaits, Waits, Origins
  <2>3. Sent(stored).at # "idle"
    BY DEF Sent
  <2>4. QED
    BY <2>1, <2>2, <2>3, WaitsOf, WaitTab DEF Waits
<1>3. QED
  BY <1>1, <1>2 DEF Send, Settle, Answered, Queue, LeadWithoutToken, SetSessionUser

(* The end of a wait.                                                      *)
LEMMA WaitEnds ==
    ASSUME OneTab, TypeInv, WaitInv, NEW t \in Tabs, NEW o \in Origins, Waits(<<t, o>>),
           NEW st, ~st.waits, post' = [post EXCEPT ![<<t, o>>] = st],
           o # "interceptor" => auth'[t] # "loading", 
           o = "interceptor" => auth'[t] \in {auth[t], "in", "out"}
    PROVE  WaitInv'
<1>1. \A w \in Origins : post'[<<t, w>>] = IF w = o THEN st ELSE post[<<t, w>>]
  BY PostsOf DEF TypeInv, TypeOK
<1>2. o # "mount2" /\ (o = "interceptor" => auth[t] # "loading")
  BY WaitsOf DEF TabWaits
<1>3. auth'[t] # "loading" /\ ~Waits(<<t, "mount1">>)'
  BY <1>1, <1>2, WaitsOf DEF TabWaits, Waits, Origins
<1>4. TabWaits(t)'
  BY <1>1, <1>2, <1>3, WaitsOf DEF TabWaits, Origins
<1>5. \A w \in Origins : Waits(<<t, w>>)' => post'[<<t, w>>].at # "idle"
  BY <1>1, WaitsOf DEF Waits
<1>6. QED
  BY <1>4, <1>5, WaitTab

LEMMA WaitHears ==
    ASSUME OneTab, TypeInv, WaitInv, NEW t \in Tabs, Hear(t) \/ \E o \in Origins : GiveUp(t, o)
    PROVE  WaitInv'
<1>a. ~NoPost.waits
  BY DEF NoPost
<1>b. \A o \in Origins : Fails(t, o) => auth'[t] = "out"
  BY DEF Fails, InterceptorFails, ShowsOut, Shows, TypeInv, TypeOK
<1>1. CASE RefreshSucceeds(t)
  <2>1. auth'[t] \in {auth[t], "in"}
    BY <1>1 DEF RefreshSucceeds, TypeInv, TypeOK
  <2>2. QED
    BY <1>1, <1>a, <2>1, WaitEnds DEF RefreshSucceeds, Waits, Origins
<1>2. CASE RestoreSucceeds(t)
  <2>1. auth'[t] = "in"
    BY <1>2 DEF RestoreSucceeds, Shows, TypeInv, TypeOK
  <2>2. QED
    BY <1>2, <1>a, <2>1, WaitEnds DEF RestoreSucceeds, Waits, Origins
<1>3. ASSUME NEW o \in Origins, RefreshRefused(t, o) PROVE WaitInv'
  BY <1>3, <1>a, <1>b, WaitEnds DEF RefreshRefused, Waits
<1>4. ASSUME NEW o \in Origins, GiveUp(t, o) PROVE WaitInv'
  <2> DEFINE st == [post[<<t, o>>] EXCEPT !.waits = FALSE]
  <2>1. ~st.waits
    BY PostOK, PostsOf DEF PostType
  <2>2. post' = [post EXCEPT ![<<t, o>>] = st]
    BY <1>4 DEF GiveUp
  <2>3. Waits(<<t, o>>) /\ auth'[t] = "out"
    BY <1>4, <1>b DEF GiveUp, Waits
  <2> HIDE DEF st
  <2>4. QED
    BY <2>1, <2>2, <2>3, WaitEnds
<1>5. QED
  BY <1>1, <1>2, <1>3, <1>4 DEF Hear

LEMMA StillUnheard ==
    ASSUME NEW r \in PostType, r.waits = FALSE
    PROVE  [r EXCEPT !.waits = FALSE] = r
BY DEF PostType

(* What the refreshes of the tab are after it was loaded again.            *)
Restores == stored # None /\ storedUser
LEMMA ReloadWaits ==
    ASSUME TypeInv, WaitInv, NEW t \in Tabs, Reload(t)
    PROVE  /\ post'[<<t, "mount2">>] = NoPost
           /\ \A o \in {"interceptor"} \cup (IF Restores THEN {} ELSE {"mount1"}) :
                 /\ ~post'[<<t, o>>].waits
                 /\ post'[<<t, o>>].at = post[<<t, o>>].at
                 /\ post'[<<t, o>>].token = post[<<t, o>>].token
           /\ Restores => post'[<<t, "mount1">>] = Sent(stored)
           /\ auth'[t] = IF Restores THEN "loading" ELSE "out"
<1> DEFINE quiet(p) == [post[p] EXCEPT !.waits = FALSE]
           hushed == [p \in Posts |-> IF p[1] = t THEN quiet(p) ELSE post[p]]
<1>1. \A o \in Origins : hushed[<<t, o>>] = quiet(<<t, o>>)
  BY PostsOf
<1>2. \A o \in Origins : /\ ~quiet(<<t, o>>).waits
                         /\ quiet(<<t, o>>).at = post[<<t, o>>].at
                         /\ quiet(<<t, o>>).token = post[<<t, o>>].token
  BY PostOK, PostsOf DEF PostType
<1>3. quiet(<<t, "mount2">>) = NoPost
  <2>1. post[<<t, "mount2">>] = NoPost
    BY WaitsOf DEF TabWaits
  <2>2. [NoPost EXCEPT !.waits = FALSE] = NoPost
    <3>1. NoPost.waits = FALSE
      BY DEF NoPost
    <3>2. QED
      BY <3>1, NoPostType, StillUnheard
  <2>3. QED
    BY <2>1, <2>2
<1>4. auth'[t] = IF Restores THEN "loading" ELSE "out"
  BY DEF Reload, Restores, Shows, TypeInv, TypeOK
<1>a. {"interceptor", "mount1", "mount2"} = Origins
  BY DEF Origins
<1>5. CASE Restores
  <2>1. PendingPromise(Sent(stored), stored)
    BY DEF PendingPromise, Sent
  <2>2. post' = [hushed EXCEPT ![<<t, "mount1">>] = Sent(stored), ![<<t, "mount2">>] = @]
    BY <1>5, <2>1 DEF Reload, Restores, SentOnMount
  <2>3. /\ post'[<<t, "mount1">>] = Sent(stored)
        /\ post'[<<t, "mount2">>] = hushed[<<t, "mount2">>]
        /\ post'[<<t, "interceptor">>] = hushed[<<t, "interceptor">>]
    BY <2>2, <1>a, PostsOf
  <2> HIDE DEF hushed, quiet
  <2>4. QED
    BY <1>1, <1>2, <1>3, <1>4, <1>5, <1>a, <2>3
<1>6. CASE ~Restores
  <2>1. post' = hushed
    BY <1>6 DEF Reload, Restores
  <2> HIDE DEF hushed, quiet
  <2>2. QED
    BY <1>1, <1>2, <1>3, <1>4, <1>6, <1>a, <2>1
<1>7. QED
  BY <1>5, <1>6

LEMMA WaitReload ==
    ASSUME OneTab, TypeInv, WaitInv, NEW t \in Tabs, Reload(t)
    PROVE  WaitInv'
<1>1. logout'[t] = None /\ \A q \in Requests : request'[t][q].pc = "idle"
  BY DEF Reload, TypeInv, TypeOK, NoRequest
<1>2. Sent(stored).waits /\ Sent(stored).at # "idle" /\ ~NoPost.waits
  BY DEF Sent, NoPost
<1>3. TabWaits(t)'
  BY <1>1, <1>2, ReloadWaits DEF TabWaits, Waits
<1>4. \A o \in Origins : Waits(<<t, o>>)' => post'[<<t, o>>].at # "idle"
  BY <1>2, ReloadWaits DEF Waits, Origins
<1>5. QED
  BY <1>3, <1>4, WaitTab

LEMMA WaitStep ==
    ASSUME OneTab, TypeInv, WaitInv, [Next]_vars
    PROVE  WaitInv'
<1>1. ASSUME UNCHANGED <<post, auth, logout>>,
             \A t \in Tabs, q \in Requests : request'[t][q].pc = request[t][q].pc
      PROVE  WaitInv'
  BY <1>1 DEF WaitInv, TabWaits, Waits
<1>2. CASE AccessExpires
  <2>1. \A t \in Tabs, q \in Requests : request'[t][q].pc = request[t][q].pc
    BY <1>2, RequestOK DEF AccessExpires, Aged, RequestType
  <2>2. QED
    BY <1>1, <1>2, <2>1 DEF AccessExpires
<1>3. CASE UNCHANGED vars \/ \E k \in Tokens : RowGone(k)
  BY <1>1, <1>3 DEF vars, tab, RowGone
<1>4. ASSUME NEW t \in Tabs,
             SignIn(t) \/ LogoutSend(t) \/ LogoutDelete(t) \/ LogoutFinish(t)
      PROVE  WaitInv'
  <2>1. UNCHANGED <<post, request>>
    BY <1>4 DEF SignIn, LogoutSend, LogoutDelete, LogoutFinish, tab
  <2>2. auth[t] # "loading"
    <3>1. auth[t] \in {"in", "out"} \/ logout[t] # None
      BY <1>4, TokensAssumption DEF SignIn, LogoutSend, LogoutDelete, LogoutFinish
    <3>2. QED
      BY <3>1, WaitsOf DEF TabWaits
  <2>3. auth'[t] # "loading"
    BY <1>4, <2>2 DEF SignIn, LogoutSend, LogoutDelete, LogoutFinish, ShowsOut, Shows, tab,
       TypeInv, TypeOK
  <2>4. TabWaits(t)'
    BY <2>1, <2>2, <2>3, WaitsOf DEF TabWaits, Waits
  <2>5. QED
    BY <2>1, <2>4, WaitsOf, WaitTab DEF Waits
<1>5. QED
  BY <1>2, <1>3, <1>4, WaitServer, WaitRequest, WaitHears, WaitReload DEF Next

LEMMA WaitAlways == OneTab => (Spec => []WaitInv)
<1> SUFFICES ASSUME OneTab PROVE Spec => []WaitInv
  OBVIOUS
<1>1. TypeInv /\ WaitInv /\ [Next]_vars => WaitInv'
  BY WaitStep
<1>2. QED
  BY WaitInit, TypeAlways, <1>1, PTL DEF Spec

(* The page's restoration of its session and the refresh of its requests   *)
(* do not use one token at the same time, nor do the two effects of a      *)
(* mount.                                                                  *)
THEOREM NoTokenSentTwice == OneTab => (Spec => []NoParallelRefresh)
<1> SUFFICES ASSUME OneTab PROVE Spec => []NoParallelRefresh
  OBVIOUS
<1>1. WaitInv => NoParallelRefresh
  BY OneWaits DEF NoParallelRefresh, Waits
<1>2. QED
  BY WaitAlways, <1>1, PTL

-----------------------------------------------------------------------------
(* Why a session is dropped.  As long as nothing excuses the loss of the   *)
(* session, what the browser relies on, the stored token or the one it     *)
(* waits for an answer to, has a row or is being exchanged; no refresh     *)
(* that was given up and no logout that was forgotten can still delete     *)
(* it; and the page shows a session exactly while it has one.              *)
Relies(k) == stored = k \/ \E p \in Posts : Waits(p) /\ post[p].token = k
Consumes(p) == post[p].at \in {"sent", "found"}
WaitedLive ==
    \A p \in Posts : Waits(p) =>
       post[p].at # "refused" /\ (post[p].at # "consumed" => HasRow(post[p].token))
StoredLive ==
    stored # None => HasRow(stored) \/ \E p \in Posts : Waits(p) /\ post[p].at \in {"consumed", "issued"}
StraysHarmless == \A p \in Posts : Consumes(p) /\ ~Waits(p) => ~Relies(post[p].token)
LogoutsHarmless == \A t \in Tabs : logout[t] \in Tokens => ~Relies(logout[t])
ShownHeld ==
    \A t \in Tabs :
       /\ auth[t] # "out" => stored # None /\ storedUser
       /\ auth[t] = "out" => /\ \A p \in Posts : ~Waits(p)
                             /\ \A q \in Requests : request[t][q].pc = "idle"
HeldInv == WaitedLive /\ StoredLive /\ StraysHarmless /\ LogoutsHarmless /\ ShownHeld
UnexcusedInv == ~excused => HeldInv

LEMMA HeldFind ==
    ASSUME TypeInv, HeldInv, NEW p \in Posts, RefreshFind(p), ~excused'
    PROVE  HeldInv'
<1>1. /\ UNCHANGED <<storage, tab, logout, row>> /\ post[p].at = "sent"
      /\ \A o \in Posts : Waits(o)' <=> Waits(o)
      /\ \A o \in Posts \ {p} : post'[o] = post[o]
  BY ServerMoves DEF Server, Waits, RefreshFind, server
<1>2. /\ post'[p].token = post[p].token
      /\ \/ HasRow(post[p].token) /\ post'[p].at = "found"
         \/ ~HasRow(post[p].token) /\ post'[p].at = "refused"
  <2>1. HasRow(post[p].token) => row[post[p].token] \in 0..MaxLogins
    BY DEF HasRow, TypeInv, TypeOK
  <2>2. CASE HasRow(post[p].token) /\ Moves(p, "found", row[post[p].token])
    BY <1>1, <2>1, <2>2, MovesFrame DEF Stages
  <2>3. CASE ~HasRow(post[p].token) /\ Moves(p, "refused", 0)
    BY <1>1, <2>3, MovesFrame, MaxLoginsAssumption DEF Stages
  <2>4. QED
    BY <2>2, <2>3 DEF RefreshFind
<1>3. \A k : Relies(k)' <=> Relies(k)
  BY <1>1, <1>2 DEF Relies, storage
<1>4. \A k : HasRow(k)' <=> HasRow(k)
  BY <1>1 DEF HasRow
<1>5. WaitedLive'
  BY <1>1, <1>2, <1>4 DEF HeldInv, WaitedLive
<1>6. StoredLive'
  BY <1>1, <1>4 DEF HeldInv, StoredLive, storage
<1>7. StraysHarmless'
  BY <1>1, <1>2, <1>3 DEF HeldInv, StraysHarmless, Consumes
<1>8. LogoutsHarmless' /\ ShownHeld'
  BY <1>1, <1>3 DEF HeldInv, LogoutsHarmless, ShownHeld, storage, tab
<1>9. QED
  BY <1>5, <1>6, <1>7, <1>8 DEF HeldInv

(* A refresh that is waited for found its row, and the exchange counts; a  *)
(* stray one deletes a token nobody relies on.                             *)
LEMMA HeldDelete ==
    ASSUME OneTab, TypeInv, WaitInv, HeldInv, NEW p \in Posts, RefreshDelete(p)
    PROVE  HeldInv'
<1>1. /\ UNCHANGED <<storage, tab, logout>> /\ post[p].at = "found" /\ post[p].token \in Tokens
      /\ \A o \in Posts : Waits(o)' <=> Waits(o)
      /\ \A o \in Posts \ {p} : post'[o] = post[o]
  BY ServerMoves, PostOK DEF Server, Waits, RefreshDelete
<1>2. /\ post'[p].token = post[p].token
      /\ \/ HasRow(post[p].token) /\ post'[p].at = "consumed"
         \/ ~HasRow(post[p].token) /\ post'[p].at = "refused"
  BY <1>1, MovesFrame, PostOK, MaxLoginsAssumption DEF RefreshDelete, Stages, PostType
<1>3. \A k : Relies(k)' <=> Relies(k)
  BY <1>1, <1>2 DEF Relies, storage
<1>4. \A k : k # post[p].token => (HasRow(k)' <=> HasRow(k))
  BY DEF RefreshDelete, HasRow, TypeInv, TypeOK
<1>5. WaitedLive' /\ StoredLive'
  <2>1. CASE Waits(p)
    <3>1. post'[p].at = "consumed"
      BY <1>1, <1>2, <2>1 DEF HeldInv, WaitedLive
    <3>2. \A o \in Posts \ {p} : ~Waits(o)
      BY <2>1, OneWaits
    <3>3. QED
      BY <1>1, <2>1, <3>1, <3>2 DEF WaitedLive, StoredLive
  <2>2. CASE ~Waits(p)
    <3>1. ~Relies(post[p].token)
      BY <1>1, <2>2 DEF HeldInv, StraysHarmless, Consumes
    <3>2. WaitedLive'
      BY <1>1, <1>4, <2>2, <3>1 DEF HeldInv, WaitedLive, Relies
    <3>3. StoredLive'
      BY <1>1, <1>4, <2>2, <3>1 DEF HeldInv, StoredLive, Relies, storage
    <3>4. QED
      BY <3>2, <3>3
  <2>3. QED
    BY <2>1, <2>2
<1>6. StraysHarmless'
  BY <1>1, <1>2, <1>3 DEF HeldInv, StraysHarmless, Consumes
<1>7. LogoutsHarmless' /\ ShownHeld'
  BY <1>1, <1>3 DEF HeldInv, LogoutsHarmless, ShownHeld, storage, tab
<1>8. QED
  BY <1>5, <1>6, <1>7 DEF HeldInv

(* The next token is nobody's.                                             *)
LEMMA HeldPersist ==
    ASSUME TypeInv, RotationInv, HeldInv, NEW p \in Posts, RefreshPersist(p)
    PROVE  HeldInv'
<1>0. PICK k, l : k = NewToken /\ l = post[p].login
  OBVIOUS
<1>1. /\ UNCHANGED <<storage, tab, logout>> /\ post[p].at = "consumed"
      /\ \A o \in Posts : Waits(o)' <=> Waits(o)
      /\ \A o \in Posts \ {p} : post'[o] = post[o]
  BY ServerMoves DEF Server, Waits, RefreshPersist
<1>2. /\ k \in Tokens /\ k # stored
      /\ \A o \in Posts : post[o].token # k
      /\ \A t \in Tabs : logout[t] # k
  BY <1>0, NewTokenFresh DEF RefreshPersist, InUse
<1>3. post'[p].token = k /\ post'[p].at = "issued"
  BY <1>0, PostOK DEF RefreshPersist, TypeInv, TypeOK, PostType
<1>4. row' = [row EXCEPT ![k] = l] /\ l # 0
  BY <1>0, <1>1 DEF RefreshPersist, RotationInv, KnowsLogin, InService
<1>5. \A j : HasRow(j) \/ j = k => HasRow(j)'
  BY <1>2, <1>4 DEF HasRow, TypeInv, TypeOK
<1>6. \A j : Relies(j)' => Relies(j) \/ j = k
  BY <1>1, <1>3 DEF Relies, storage
<1>7. WaitedLive'
  BY <1>1, <1>3, <1>5 DEF HeldInv, WaitedLive
<1>8. StoredLive'
  BY <1>1, <1>3, <1>5 DEF HeldInv, StoredLive, storage
<1>9. StraysHarmless'
  BY <1>1, <1>2, <1>3, <1>6 DEF HeldInv, StraysHarmless, Consumes
<1>10. LogoutsHarmless' /\ ShownHeld'
  BY <1>1, <1>2, <1>6 DEF HeldInv, LogoutsHarmless, ShownHeld, storage, tab
<1>11. QED
  BY <1>7, <1>8, <1>9, <1>10 DEF HeldInv

(* Steps that end a stray refresh, or concern requests only.               *)
LEMMA HeldQuiet ==
    ASSUME TypeInv, HeldInv, UNCHANGED <<stored, auth, row>>, storedUser' \/ UNCHANGED storedUser,
           \A o \in Posts : \/ post'[o] = post[o]
                            \/ ~Waits(o) /\ post'[o] = NoPost,
           \A t \in Tabs : logout'[t] = logout[t],
           \A t \in Tabs, q \in Requests :
              request[t][q].pc = "idle" => auth[t] # "out" \/ request'[t][q].pc = "idle"
    PROVE  HeldInv'
<1>1. /\ ~NoPost.waits /\ NoPost.at = "idle"
      /\ \A o \in Posts : Waits(o)' <=> Waits(o)
  BY DEF NoPost, Waits
<1>2. \A k : Relies(k)' <=> Relies(k)
  BY <1>1 DEF Relies
<1>3. \A k : HasRow(k)' <=> HasRow(k)
  BY DEF HasRow
<1>4. WaitedLive' /\ StoredLive'
  BY <1>1, <1>3 DEF HeldInv, WaitedLive, StoredLive
<1>5. StraysHarmless' /\ LogoutsHarmless'
  BY <1>1, <1>2 DEF HeldInv, StraysHarmless, LogoutsHarmless, Consumes
<1>6. ShownHeld'
  BY <1>1 DEF HeldInv, ShownHeld
<1>7. QED
  BY <1>4, <1>5, <1>6 DEF HeldInv

(* A page with a request in flight shows a session, and nothing waits for  *)
(* a token yet when a request leads.                                       *)
LEMMA InFlight ==
    ASSUME OneTab, TypeInv, WaitInv, HeldInv, NEW t \in Tabs, NEW q \in Requests,
           request[t][q].pc # "idle"
    PROVE  auth[t] = "in" /\ stored # None /\ storedUser
<1>1. auth[t] # "loading"
  BY WaitsOf DEF TabWaits
<1>2. auth[t] # "out"
  BY DEF HeldInv, ShownHeld
<1>3. QED
  BY <1>1, <1>2 DEF HeldInv, ShownHeld, TypeInv, TypeOK

LEMMA HeldLead ==
    ASSUME OneTab, TypeInv, WaitInv, HeldInv, NEW t \in Tabs, NEW q \in Requests, Lead(t, q)
    PROVE  HeldInv'
<1> DEFINE p == <<t, "interceptor">>
<1>1. p \in Posts /\ auth[t] = "in" /\ stored # None
  <2>1. request[t][q].pc # "idle"
    BY DEF Lead, Unauthorized
  <2>2. QED
    BY <2>1, InFlight, PostsOf DEF Origins
<1>2. \A o \in Posts : ~Waits(o)
  <2>1. ~Waits(<<t, "interceptor">>) /\ ~Waits(<<t, "mount1">>) /\ ~Waits(<<t, "mount2">>)
    BY <1>1, WaitsOf DEF Lead, TabWaits, Origins
  <2>2. QED
    BY <2>1 DEF OneTab, Posts, Origins
<1>3. /\ UNCHANGED <<storage, auth, logout, row>>
      /\ post'[p] = Sent(stored) /\ \A o \in Posts \ {p} : post'[o] = post[o]
  BY <1>1 DEF Lead, server, TypeInv, TypeOK
<1>4. Sent(stored).at = "sent" /\ Sent(stored).token = stored /\ Sent(stored).waits
  BY DEF Sent
<1> HIDE DEF p
<1>5. Waits(p)' /\ \A o \in Posts \ {p} : ~Waits(o)'
  BY <1>2, <1>3, <1>4 DEF Waits
<1>6. HasRow(stored)' /\ HasRow(stored)
  BY <1>1, <1>2, <1>3 DEF HeldInv, StoredLive, HasRow, storage
<1>7. \A k : Relies(k)' <=> Relies(k)
  BY <1>2, <1>3, <1>4, <1>5 DEF Relies, storage
<1>8. WaitedLive' /\ StoredLive'
  BY <1>3, <1>4, <1>5, <1>6 DEF WaitedLive, StoredLive, storage, HasRow
<1>9. StraysHarmless' /\ LogoutsHarmless'
  BY <1>1, <1>2, <1>3, <1>5, <1>7 DEF HeldInv, StraysHarmless, LogoutsHarmless, Consumes
<1>10. ShownHeld'
  BY <1>1, <1>3 DEF HeldInv, ShownHeld, storage, OneTab
<1>11. QED
  BY <1>8, <1>9, <1>10 DEF HeldInv

LEMMA HeldRequest ==
    ASSUME OneTab, TypeInv, WaitInv, HeldInv, NEW t \in Tabs, NEW q \in Requests,
           Send(t, q) \/ Settle(t, q) \/ SetSessionUser(t, q)
    PROVE  HeldInv' /\ auth'[t] = auth[t]
<1>1. CASE Lead(t, q)
  BY <1>1, HeldLead DEF Lead
<1>2. CASE ~Lead(t, q)
  <2>1. ~LeadWithoutToken(t, q)
    BY InFlight DEF LeadWithoutToken, Unauthorized
  <2>2. /\ UNCHANGED <<stored, auth, row, post, logout>>
        /\ storedUser' \/ UNCHANGED storedUser
    BY <1>2, <2>1, InFlight
       DEF Send, Settle, Answered, Queue, SetSessionUser, storage, server
  <2>3. auth[t] = "in"
    BY <1>2, <2>1, InFlight DEF Send, Settle, Answered, Queue, Unauthorized, SetSessionUser
  <2>4. \A u \in Tabs : auth[u] # "out"
    BY <2>3 DEF OneTab
  <2>5. QED
    BY <2>2, <2>4, HeldQuiet
<1>3. QED
  BY <1>1, <1>2

(* The answer is stored: its token has a row, and nobody else waits.       *)
LEMMA HeldHears ==
    ASSUME OneTab, TypeInv, WaitInv, HeldInv, NEW t \in Tabs, NEW o \in Origins,
           post[<<t, o>>].at = "issued", Waits(<<t, o>>),
           post' = [post EXCEPT ![<<t, o>>] = NoPost],
           stored' = post[<<t, o>>].token,
           UNCHANGED <<storedUser, logout, row>>, auth'[t] # "out"
    PROVE  HeldInv'
<1>0. PICK p, k : p = <<t, o>> /\ k = post[<<t, o>>].token
  OBVIOUS
<1>1. p \in Posts /\ k \in Tokens /\ stored' = k /\ Relies(k)
  BY <1>0, PostsOf, PostOK DEF Relies
<1>2. post'[p] = NoPost /\ \A r \in Posts \ {p} : post'[r] = post[r]
  BY <1>0, <1>1 DEF TypeInv, TypeOK
<1>3. \A r \in Posts : ~Waits(r)'
  <2>1. ~NoPost.waits
    BY DEF NoPost
  <2>2. \A r \in Posts \ {p} : ~Waits(r)
    BY <1>0, <1>1, OneWaits
  <2>3. QED
    BY <1>2, <2>1, <2>2 DEF Waits
<1>4. HasRow(k)' /\ k # None
  BY <1>0, <1>1, TokensAssumption DEF HeldInv, WaitedLive, HasRow
<1>5. \A j : Relies(j)' => Relies(j)
  BY <1>1, <1>3 DEF Relies
<1>6. WaitedLive' /\ StoredLive'
  BY <1>1, <1>3, <1>4 DEF WaitedLive, StoredLive, HasRow
<1>7. StraysHarmless'
  <2>1. NoPost.at = "idle"
    BY DEF NoPost
  <2>2. \A r \in Posts \ {p} : ~Waits(r)
    BY <1>0, <1>1, OneWaits
  <2>3. QED
    BY <1>2, <1>5, <2>1, <2>2 DEF HeldInv, StraysHarmless, Consumes
<1>8. LogoutsHarmless'
  BY <1>5 DEF HeldInv, LogoutsHarmless
<1>9. storedUser
  BY <1>0, <1>1 DEF HeldInv, ShownHeld, TypeInv, TypeOK
<1>10. ShownHeld'
  BY <1>1, <1>4, <1>9 DEF ShownHeld, OneTab
<1>11. QED
  BY <1>6, <1>7, <1>8, <1>10 DEF HeldInv

LEMMA HeldReload ==
    ASSUME OneTab, TypeInv, WaitInv, HeldInv, NEW t \in Tabs, Reload(t),
           \A p \in Posts : ~Waits(p)
    PROVE  HeldInv' /\ (auth[t] # "out" => auth'[t] # "out")
<1>1. /\ UNCHANGED <<storage, row>> /\ logout'[t] = None
      /\ \A q \in Requests : request'[t][q].pc = "idle"
  BY DEF Reload, TypeInv, TypeOK, NoRequest, server
<1>2. stored # None => HasRow(stored)
  BY DEF HeldInv, StoredLive
<1>3. \A p \in Posts : \E o \in Origins : p = <<t, o>>
  BY DEF Posts, OneTab
<1>4. /\ Sent(stored).at = "sent" /\ Sent(stored).token = stored /\ Sent(stored).waits
      /\ NoPost.at = "idle" /\ ~NoPost.waits
  BY DEF Sent, NoPost
<1>5. \A p \in Posts :
         \/ ~Waits(p)' /\ (Consumes(p)' => post'[p].at = post[p].at /\ post'[p].token = post[p].token)
         \/ Restores /\ p = <<t, "mount1">> /\ post'[p] = Sent(stored)
  <2>1. ASSUME NEW o \in {"interceptor"} \cup (IF Restores THEN {} ELSE {"mount1"})
        PROVE  ~Waits(<<t, o>>)' /\ post'[<<t, o>>].at = post[<<t, o>>].at
               /\ post'[<<t, o>>].token = post[<<t, o>>].token
    BY <2>1, ReloadWaits DEF Waits
  <2>2. ~Waits(<<t, "mount2">>)' /\ ~Consumes(<<t, "mount2">>)'
    BY <1>4, ReloadWaits DEF Waits, Consumes
  <2>3. Restores => post'[<<t, "mount1">>] = Sent(stored)
    BY ReloadWaits
  <2>4. QED
    BY <1>3, <2>1, <2>2, <2>3 DEF Origins
<1>6. \A k : Relies(k)' <=> Relies(k)
  BY <1>1, <1>4, <1>5 DEF Relies, Restores, Waits, storage
<1>7. WaitedLive'
  BY <1>1, <1>2, <1>4, <1>5 DEF WaitedLive, Waits, HasRow, Restores
<1>8. StoredLive'
  BY <1>1, <1>2 DEF StoredLive, HasRow, storage
<1>9. StraysHarmless'
  BY <1>4, <1>5, <1>6 DEF HeldInv, StraysHarmless, Consumes, Waits
<1>10. LogoutsHarmless'
  BY <1>1, TokensAssumption DEF LogoutsHarmless, OneTab
<1>11. ShownHeld'
  <2>1. auth'[t] = IF Restores THEN "loading" ELSE "out"
    BY ReloadWaits
  <2>2. ~Restores => \A p \in Posts : ~Waits(p)'
    BY <1>5
  <2>3. QED
    BY <1>1, <2>1, <2>2 DEF ShownHeld, OneTab, Restores, storage
<1>12. auth[t] # "out" => auth'[t] # "out"
  BY ReloadWaits DEF HeldInv, ShownHeld, Restores
<1>13. QED
  BY <1>7, <1>8, <1>9, <1>10, <1>11, <1>12 DEF HeldInv

LEMMA HeldSignIn ==
    ASSUME OneTab, TypeInv, NEW t \in Tabs, SignIn(t), \A p \in Posts : ~Waits(p)
    PROVE  HeldInv'
<1>0. PICK k, l : /\ k = NewToken /\ l \in 1..MaxLogins
                  /\ row' = [row EXCEPT ![k] = l]
  BY DEF SignIn
<1>1. /\ k \in Tokens /\ k # None
      /\ \A o \in Posts : post[o].token # k
      /\ \A u \in Tabs : logout[u] # k
  BY <1>0, NewTokenFresh, TokensAssumption DEF SignIn, InUse
<1>2. UNCHANGED <<post, logout>> /\ stored' = k /\ storedUser' /\ auth'[t] = "in"
  BY <1>0 DEF SignIn, Store, Shows, TypeInv, TypeOK
<1>3. HasRow(k)'
  BY <1>0, <1>1, MaxLoginsAssumption DEF HasRow, TypeInv, TypeOK
<1>4. \A j : Relies(j)' => j = k
  BY <1>2 DEF Relies, Waits
<1>5. WaitedLive' /\ StoredLive'
  BY <1>2, <1>3 DEF WaitedLive, StoredLive, Waits, HasRow
<1>6. StraysHarmless' /\ LogoutsHarmless'
  BY <1>1, <1>2, <1>4 DEF StraysHarmless, LogoutsHarmless
<1>7. ShownHeld'
  BY <1>1, <1>2 DEF ShownHeld, OneTab
<1>8. QED
  BY <1>5, <1>6, <1>7 DEF HeldInv

(* A logout that was forgotten deletes a token nobody relies on.           *)
LEMMA HeldLogout ==
    ASSUME TypeInv, HeldInv, NEW t \in Tabs, LogoutDelete(t)
    PROVE  HeldInv'
<1>0. PICK k : k = logout[t]
  OBVIOUS
<1>1. k \in Tokens /\ ~Relies(k)
  BY <1>0 DEF LogoutDelete, HeldInv, LogoutsHarmless
<1>2. /\ UNCHANGED <<storage, tab, post>>
      /\ \A u \in Tabs : logout'[u] \in {logout[u], "done"}
  BY DEF LogoutDelete, TypeInv, TypeOK
<1>3. \A j : j # k => (HasRow(j)' <=> HasRow(j))
  BY <1>0 DEF LogoutDelete, DeletesRow, HasRow, TypeInv, TypeOK
<1>4. (\A p \in Posts : Waits(p)' <=> Waits(p)) /\ \A j : Relies(j)' <=> Relies(j)
  BY <1>2 DEF Waits, Relies, storage
<1>5. WaitedLive'
  BY <1>1, <1>2, <1>3, <1>4 DEF HeldInv, WaitedLive, Relies
<1>6. StoredLive'
  BY <1>1, <1>2, <1>3, <1>4 DEF HeldInv, StoredLive, Relies, storage
<1>7. StraysHarmless'
  BY <1>2, <1>4 DEF HeldInv, StraysHarmless, Consumes
<1>8. LogoutsHarmless'
  BY <1>2, <1>4, TokensAssumption DEF HeldInv, LogoutsHarmless
<1>9. ShownHeld'
  BY <1>2, <1>4 DEF HeldInv, ShownHeld, storage, tab
<1>10. QED
  BY <1>5, <1>6, <1>7, <1>8, <1>9 DEF HeldInv

(* A step that excuses nothing keeps what the browser relies on, and drops *)
(* no session.                                                             *)
Keeps == \A t \in Tabs : auth[t] # "out" => auth'[t] # "out"
LEMMA HeldStep ==
    ASSUME OneTab, TypeInv, RotationInv, WaitInv, UnexcusedInv, [Next]_vars, ~excused'
    PROVE  HeldInv' /\ Keeps
<1> USE DEF UnexcusedInv
<1>a. ASSUME NEW t \in Tabs, auth[t] # "out" => auth'[t] # "out" PROVE Keeps
  BY <1>a DEF Keeps, OneTab
<1>b. ASSUME UNCHANGED auth PROVE Keeps
  BY <1>b DEF Keeps
<1>1. ASSUME NEW p \in Posts, Server(p) \/ RefreshCrash(p) \/ Unheard(p)
      PROVE  HeldInv' /\ Keeps
  <2>1. CASE RefreshFind(p)
    <3>1. ~excused
      BY <2>1 DEF RefreshFind
    <3>2. QED
      BY <1>b, <2>1, <3>1, HeldFind DEF RefreshFind, tab
  <2>2. CASE RefreshDelete(p)
    BY <1>b, <2>2, HeldDelete DEF RefreshDelete, tab
  <2>3. CASE RefreshPersist(p)
    BY <1>b, <2>3, HeldPersist DEF RefreshPersist, tab
  <2>4. CASE RefreshCrash(p)
    BY <2>4 DEF RefreshCrash
  <2>5. CASE Unheard(p)
    <3>1. \A o \in Posts : post'[o] = post[o] \/ (~Waits(o) /\ post'[o] = NoPost)
      BY <2>5 DEF Unheard, Waits, TypeInv, TypeOK
    <3>2. /\ UNCHANGED <<stored, storedUser, auth, request, logout, row>> /\ ~excused
      BY <2>5 DEF Unheard, storage, tab, server
    <3>3. QED
      BY <1>b, <3>1, <3>2, HeldQuiet
  <2>6. QED
    BY <1>1, <2>1, <2>2, <2>3, <2>4, <2>5 DEF Server
<1>2. ASSUME NEW t \in Tabs, NEW q \in Requests, Send(t, q) \/ Settle(t, q) \/ SetSessionUser(t, q)
      PROVE  HeldInv' /\ Keeps
  <2>1. ~excused
    BY <1>2 DEF Send, Settle, Answered, Queue, Lead, LeadWithoutToken, SetSessionUser
  <2>2. QED
    BY <1>2, <1>a, <2>1, HeldRequest
<1>3. ASSUME NEW t \in Tabs, RefreshSucceeds(t) PROVE HeldInv' /\ Keeps
  <2> DEFINE p == <<t, "interceptor">>
  <2>1. /\ ~excused /\ post[p].at = "issued" /\ Waits(p) /\ post' = [post EXCEPT ![p] = NoPost]
        /\ stored' = post[p].token /\ UNCHANGED <<storedUser, logout, row>>
    BY <1>3 DEF RefreshSucceeds, Store, Waits, server
  <2>2. auth[t] # "out"
    BY <2>1, PostsOf DEF HeldInv, ShownHeld, Origins
  <2>3. auth'[t] # "out"
    BY <1>3, <2>2 DEF RefreshSucceeds, TypeInv, TypeOK
  <2>4. QED
    BY <1>a, <2>1, <2>3, HeldHears DEF Origins
<1>4. ASSUME NEW t \in Tabs, RestoreSucceeds(t) PROVE HeldInv' /\ Keeps
  <2>1. PICK o \in Origins :
           /\ post[<<t, o>>].at = "issued" /\ Waits(<<t, o>>)
           /\ post' = [post EXCEPT ![<<t, o>>] = NoPost]
           /\ stored' = post[<<t, o>>].token
    BY <1>4 DEF RestoreSucceeds, Store, Waits, Origins
  <2>2. ~excused /\ UNCHANGED <<storedUser, logout, row>> /\ auth'[t] = "in"
    BY <1>4 DEF RestoreSucceeds, Shows, server, TypeInv, TypeOK
  <2>3. QED
    BY <1>a, <2>1, <2>2, HeldHears
<1>5. ASSUME NEW t \in Tabs, NEW o \in Origins, RefreshRefused(t, o) PROVE FALSE
  BY <1>5, PostsOf DEF RefreshRefused, HeldInv, WaitedLive, Waits
<1>6. ASSUME NEW t \in Tabs, Reload(t) PROVE HeldInv' /\ Keeps
  <2>1. ~excused /\ \A o \in Origins : ~Waits(<<t, o>>)
    BY <1>6 DEF Reload, Waits
  <2>2. \A p \in Posts : ~Waits(p)
    BY <2>1 DEF Posts, OneTab
  <2>3. QED
    BY <1>6, <1>a, <2>1, <2>2, HeldReload
<1>7. ASSUME NEW t \in Tabs, SignIn(t) PROVE HeldInv' /\ Keeps
  <2>1. \A p \in Posts : ~Waits(p)
    <3>1. CASE excused
      BY <1>7, <3>1 DEF SignIn, Waits
    <3>2. CASE ~excused
      BY <1>7, <3>2 DEF SignIn, HeldInv, ShownHeld
    <3>3. QED
      BY <3>1, <3>2
  <2>2. QED
    BY <1>7, <1>a, <2>1, HeldSignIn DEF SignIn
<1>8. ASSUME NEW t \in Tabs, LogoutDelete(t) PROVE HeldInv' /\ Keeps
  BY <1>8, <1>b, HeldLogout DEF LogoutDelete, tab
<1>9. CASE AccessExpires
  <2>1. \A t \in Tabs, q \in Requests : request'[t][q].pc = request[t][q].pc
    BY <1>9, RequestOK DEF AccessExpires, Aged, RequestType
  <2>2. UNCHANGED <<stored, storedUser, auth, post, logout, row, excused>>
    BY <1>9 DEF AccessExpires, server
  <2>3. QED
    BY <1>b, <2>1, <2>2, HeldQuiet
<1>10. CASE UNCHANGED vars
  BY <1>10, <1>b, HeldQuiet DEF vars, storage, tab, server
<1>11. ASSUME \/ \E k \in Tokens : RowGone(k)
              \/ \E t \in Tabs : \/ \E o \in Origins : GiveUp(t, o)
                                 \/ LogoutSend(t) \/ LogoutFinish(t)
       PROVE  FALSE
  BY <1>11 DEF RowGone, GiveUp, LogoutSend, LogoutFinish
<1>12. QED
  BY <1>1, <1>2, <1>3, <1>4, <1>5, <1>6, <1>7, <1>8, <1>9, <1>10, <1>11 DEF Next, Hear

LEMMA UnexcusedInit == Init => UnexcusedInv
<1> SUFFICES ASSUME Init PROVE HeldInv
  BY DEF UnexcusedInv
<1>1. \A p \in Posts : post[p] = NoPost
  BY DEF Init
<1>2. \A p \in Posts : ~Waits(p) /\ ~Consumes(p)
  BY <1>1 DEF NoPost, Waits, Consumes
<1>3. \A t \in Tabs, q \in Requests : request[t][q].pc = "idle"
  BY DEF Init, NoRequest
<1>4. QED
  BY <1>2, <1>3, TokensAssumption
     DEF Init, HeldInv, WaitedLive, StoredLive, StraysHarmless, LogoutsHarmless, ShownHeld

(* The client only drops a session after a logout, the loss of an answer,  *)
(* a failure of the server or the end of the row: requests that expire     *)
(* together, a page mounted twice, and refreshes and logouts that were     *)
(* forgotten on the way do not make it lose one.                           *)
THEOREM SessionDroppedForCause == OneTab => (Spec => DroppedForCause)
<1> SUFFICES ASSUME OneTab PROVE Spec => DroppedForCause
  OBVIOUS
<1>1. TypeInv /\ RotationInv /\ WaitInv /\ UnexcusedInv /\ [Next]_vars => UnexcusedInv'
  BY HeldStep DEF UnexcusedInv
<1>2. TypeInv /\ RotationInv /\ WaitInv /\ UnexcusedInv /\ [Next]_vars =>
         [\A t \in Tabs : auth[t] \in {"in", "loading"} /\ auth'[t] = "out" => excused']_vars
  BY HeldStep DEF Keeps
<1>3. QED
  BY TypeAlways, RotationAlways, WaitAlways, UnexcusedInit, <1>1, <1>2, PTL
     DEF Spec, DroppedForCause
=============================================================================
