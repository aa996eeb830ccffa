-------------------------- MODULE RilClientProofs --------------------------
(***************************************************************************)
(* Tokens and history records of the RIL client, for any number of         *)
(* connections, requests, reports and tokens: the reader and the sender    *)
(* free the same token, a connection may break in between, and yet nothing *)
(* is left behind.  The second part is about the handlers of the answers   *)
(* and the tokens of many callers (RilAnswers, the same library on one     *)
(* connection).                                                            *)
(***************************************************************************)
EXTENDS RilClient, TLAPS, WellFoundedInduction

(* The call into the HAL: a request in progress is one of those left, and  *)
(* its caller holds the lock.                                              *)
CallTyped ==
    /\ hal \in {"closed", "idle", "calling", "joining", "closing"}
    /\ caller \in {Hal, None} \union Conns
    /\ step \in {"none", "check", "connect", "start", "send", "write", "free"}
    /\ left \in 0 .. MaxRequests /\ (step # "none" => left # 0)
    /\ step = "none" <=> caller = None
    /\ token \in Tokens \union {None} /\ joins \in Conns \union {None}

ClientTyped ==
    /\ sock \in Conns \union {None} /\ pipefd \in Conns \union {None}
    /\ tid_reader \in Conns \union {None}
    /\ b_connect \in BOOLEAN /\ handler \in BOOLEAN

ReadersTyped ==
    /\ reader \in [Conns -> {"none", "top", "select", "read", "answer", "free", "clear",
                             "callback", "eof", "done"}]
    /\ watch \in [Conns -> [sock : Conns \union {None}, pipe : Conns \union {None}]]
    /\ got \in [Conns -> Tokens \union {None}]
    /\ \A c \in Conns : reader[c] \in {"answer", "free", "clear"} => got[c] # None
    /\ gone \subseteq Conns

NetTyped ==
    /\ fd \in [Conns -> {"unused", "open", "closed"}]
    /\ up \subseteq Conns /\ told \subseteq Conns /\ reports \in 0 .. MaxReports
    /\ pending \in [Conns -> SUBSET Tokens]
    /\ inbox \in [Conns -> SUBSET (Tokens \union {Report})]

(* A token in use and the one record there may be are those of the request *)
(* being written or freed; the reader may have freed either before.        *)
TokensOfCaller ==
    /\ history \in [Tokens -> Tokens \union {None}] /\ token_pool \subseteq Tokens
    /\ IF step \in {"write", "free"}
       THEN /\ token \in Tokens /\ token_pool \subseteq {token}
            /\ \A i \in Tokens : history[i] \in {None, token}
            /\ \A i, j \in Tokens : history[i] = token /\ history[j] = token => i = j
       ELSE token_pool = {} /\ \A i \in Tokens : history[i] = None

IInv == CallTyped /\ ClientTyped /\ ReadersTyped /\ NetTyped /\ TokensOfCaller
-----------------------------------------------------------------------------
(* A record is cleared or stays, and no other entry of the history         *)
(* changes.                                                                *)
LEMMA ClearClears ==
    ASSUME NEW h \in [Tokens -> Tokens \union {None}], NEW t
    PROVE  /\ Clear(h, t) \in [Tokens -> Tokens \union {None}]
           /\ \A i \in Tokens : Clear(h, t)[i] \in {h[i], None}
<1> DEFINE found == {i \in Tokens : h[i] = t}
           k     == CHOOSE i \in found : \A j \in found : i <= j
<1>1. CASE found = {}
  BY <1>1 DEF Clear
<1>2. CASE found # {}
  <2>1. Clear(h, t) = [h EXCEPT ![k] = None]
    BY <1>2 DEF Clear
  <2> HIDE DEF k
  <2>2. QED
    BY <2>1
<1>3. QED
  BY <1>1, <1>2

(* The one record of a token is the one that is found.                     *)
LEMMA ClearEmpties ==
    ASSUME NEW h \in [Tokens -> Tokens \union {None}], NEW t \in Tokens,
           \A i \in Tokens : h[i] \in {None, t},
           \A i, j \in Tokens : h[i] = t /\ h[j] = t => i = j
    PROVE  \A i \in Tokens : Clear(h, t)[i] = None
<1> DEFINE found == {i \in Tokens : h[i] = t}
           k     == CHOOSE i \in found : \A j \in found : i <= j
<1>1. CASE found = {}
  BY <1>1 DEF Clear
<1>2. CASE found # {}
  <2>1. Clear(h, t) = [h EXCEPT ![k] = None]
    BY <1>2 DEF Clear
  <2>2. PICK n \in Tokens : found = {n}
    BY <1>2
  <2>3. n <= n
    BY DEF Tokens
  <2>4. k = n
    BY <2>2, <2>3
  <2> HIDE DEF k
  <2>5. QED
    BY <2>1, <2>2, <2>4
<1>3. QED
  BY <1>1, <1>2

(* A reader may free a token or its record before the caller does.         *)
LEMMA FreedTwice ==
    ASSUME TokensOfCaller, step' = step, token' = token, token_pool' \subseteq token_pool,
           history' \in [Tokens -> Tokens \union {None}],
           \A i \in Tokens : history'[i] \in {history[i], None}
    PROVE  TokensOfCaller'
<1>1. None \notin Tokens
  BY RilAssumption DEF Tokens
<1>2. QED
  BY <1>1 DEF TokensOfCaller

(* A request is over: the next one of the call begins, or the lock is      *)
(* free.                                                                   *)
LEMMA ReturnKeeps ==
    ASSUME CallTyped, ReadersTyped, step # "none", Return
    PROVE  CallTyped' /\ ReadersTyped' /\ step' \in {"none", "check"}
<1>1. CallTyped' /\ step' \in {"none", "check"}
  BY RilAssumption DEF Return, CallTyped, Hal
<1>2. ReadersTyped'
  BY DEF Return, ReadersTyped
<1>3. QED
  BY <1>1, <1>2

(* A new client has no token in use and an empty history.                  *)
LEMMA NewClientKeeps ==
    ASSUME NewClient, step' \notin {"write", "free"}, handler' \in BOOLEAN
    PROVE  ClientTyped' /\ TokensOfCaller'
BY DEF NewClient, ClientTyped, TokensOfCaller

(* A process that is started again begins with nothing.                    *)
LEMMA AbortKeeps ==
    ASSUME IInv, Abort
    PROVE  IInv'
<1>1. CallTyped'
  BY RilAssumption DEF Abort, CallTyped
<1>2. ClientTyped' /\ TokensOfCaller'
  BY NewClientKeeps DEF Abort
<1>3. ReadersTyped'
  BY DEF Abort, Nothing, IInv, ReadersTyped
<1>4. NetTyped'
  BY DEF Abort, IInv, NetTyped
<1>5. QED
  BY <1>1, <1>2, <1>3, <1>4 DEF IInv

(* The client is closed, and nothing was ever sent.                        *)
LEMMA InitHolds == Init => IInv
<1> SUFFICES ASSUME Init PROVE IInv
  OBVIOUS
<1>1. CallTyped /\ ClientTyped
  <2>1. 0 \in 0 .. MaxRequests
    BY RilAssumption
  <2>2. CallTyped
    BY <2>1 DEF Init, CallTyped
  <2>3. ClientTyped
    BY DEF Init, ClientTyped
  <2>4. QED
    BY <2>2, <2>3
<1>2. ReadersTyped
  BY DEF Init, Nothing, ReadersTyped
<1>3. NetTyped
  BY RilAssumption DEF Init, NetTyped
<1>4. TokensOfCaller
  BY DEF Init, TokensOfCaller
<1>5. QED
  BY <1>1, <1>2, <1>3, <1>4 DEF IInv

(* A new client takes the place of the closed one.                         *)
LEMMA ril_openKeeps ==
    ASSUME IInv, ril_open
    PROVE  IInv'
<1>1. ClientTyped' /\ TokensOfCaller'
  BY DEF ril_open, RegisterUnsolicitedHandler, NewClient, IInv, ClientTyped, TokensOfCaller
<1>2. CallTyped' /\ ReadersTyped' /\ NetTyped'
  BY DEF ril_open, call, client, tokens, readers, net, IInv, CallTyped, ReadersTyped, NetTyped
<1>3. QED
  BY <1>1, <1>2 DEF IInv

(* The framework calls into the HAL.                                       *)
LEMMA EnterKeeps ==
    ASSUME IInv, Enter
    PROVE  IInv'
<1>1. CallTyped' /\ ClientTyped'
  BY RilAssumption DEF Enter, call, client, IInv, CallTyped, ClientTyped
<1>2. ReadersTyped'
  BY RilAssumption DEF Enter, readers, IInv, ClientTyped, ReadersTyped
<1>3. NetTyped'
  BY RilAssumption DEF Enter, net, IInv, NetTyped, ClientTyped
<1>4. TokensOfCaller'
  BY RilAssumption DEF Enter, call, tokens, IInv, CallTyped, TokensOfCaller
<1>5. QED
  BY <1>1, <1>2, <1>3, <1>4 DEF IInv

(* It takes the lock, with requests to make.                               *)
LEMMA LockHalKeeps ==
    ASSUME IInv, LockHal
    PROVE  IInv'
<1>1. CallTyped' /\ ClientTyped'
  BY RilAssumption DEF LockHal, Lock, Hal, call, client, IInv, CallTyped, ClientTyped
<1>2. ReadersTyped'
  BY RilAssumption DEF LockHal, Lock, Hal, readers, IInv, ClientTyped, ReadersTyped
<1>3. NetTyped'
  BY RilAssumption DEF LockHal, Lock, Hal, net, IInv, NetTyped, ClientTyped
<1>4. TokensOfCaller'
  BY RilAssumption DEF LockHal, Lock, Hal, call, tokens, IInv, CallTyped, TokensOfCaller
<1>5. QED
  BY <1>1, <1>2, <1>3, <1>4 DEF IInv

(* A connected client sends at once.                                       *)
LEMMA ril_connect_if_requiredKeeps ==
    ASSUME IInv, ril_connect_if_required
    PROVE  IInv'
<1>1. CallTyped' /\ ClientTyped'
  BY RilAssumption DEF ril_connect_if_required, isConnected_RILD, call, client, IInv,
     CallTyped, ClientTyped
<1>2. ReadersTyped'
  BY RilAssumption DEF ril_connect_if_required, isConnected_RILD, readers, IInv,
     ClientTyped, ReadersTyped
<1>3. NetTyped'
  BY RilAssumption DEF ril_connect_if_required, isConnected_RILD, net, IInv, NetTyped,
     ClientTyped
<1>4. TokensOfCaller'
  BY RilAssumption DEF ril_connect_if_required, isConnected_RILD, call, tokens, IInv,
     CallTyped, TokensOfCaller
<1>5. QED
  BY <1>1, <1>2, <1>3, <1>4 DEF IInv

(* No connection: the request is over; else the reader is made next.       *)
LEMMA Connect_RILDKeeps ==
    ASSUME IInv, Connect_RILD
    PROVE  IInv'
<1>1. CASE sock' = None /\ Return /\ UNCHANGED <<b_connect, pipefd, tid_reader, handler, fd, up>>
  <2>1. CallTyped' /\ ReadersTyped' /\ step' \in {"none", "check"}
    BY <1>1, ReturnKeeps DEF Connect_RILD, IInv
  <2>2. ClientTyped' /\ NetTyped'
    BY <1>1 DEF Connect_RILD, IInv, ClientTyped, NetTyped
  <2>3. TokensOfCaller'
    BY <2>1 DEF Connect_RILD, tokens, IInv, TokensOfCaller
  <2>4. QED
    BY <2>1, <2>2, <2>3 DEF IInv
<1>2. CASE \E c \in Unused :
             /\ sock' = c /\ b_connect' = TRUE /\ step' = "start"
             /\ fd' = [fd EXCEPT ![c] = "open"] /\ up' = up \union {c}
             /\ UNCHANGED <<hal, caller, left, token, joins, pipefd, tid_reader, handler, readers>>
  <2>1. CallTyped' /\ ClientTyped'
    BY <1>2 DEF Connect_RILD, Unused, IInv, CallTyped, ClientTyped
  <2>2. ReadersTyped' /\ NetTyped'
    BY <1>2 DEF Connect_RILD, Unused, readers, IInv, ReadersTyped, NetTyped
  <2>3. TokensOfCaller'
    BY <1>2 DEF Connect_RILD, tokens, IInv, TokensOfCaller
  <2>4. QED
    BY <2>1, <2>2, <2>3 DEF IInv
<1>3. QED
  BY <1>1, <1>2 DEF Connect_RILD

(* The reader runs, or its thread cannot be made and the client starts     *)
(* anew.                                                                   *)
LEMMA StartReaderKeeps ==
    ASSUME IInv, StartReader
    PROVE  IInv'
<1>1. CASE sock = None /\ Return /\ UNCHANGED <<client, tokens, fd>>
  <2>1. CallTyped' /\ ReadersTyped' /\ step' \in {"none", "check"}
    BY <1>1, ReturnKeeps DEF StartReader, IInv
  <2>2. ClientTyped' /\ NetTyped'
    BY <1>1 DEF StartReader, client, IInv, ClientTyped, NetTyped
  <2>3. TokensOfCaller'
    BY <1>1, <2>1 DEF StartReader, tokens, IInv, TokensOfCaller
  <2>4. QED
    BY <2>1, <2>2, <2>3 DEF IInv
<1>2. CASE /\ sock # None
           /\ pipefd' = sock /\ tid_reader' = sock
           /\ reader' = [reader EXCEPT ![sock] = "top"]
           /\ step' = "send"
           /\ UNCHANGED <<hal, caller, left, token, joins, sock, b_connect, handler, tokens,
                          watch, got, gone, fd>>
  <2>1. CallTyped' /\ ClientTyped'
    BY <1>2 DEF StartReader, IInv, CallTyped, ClientTyped
  <2>2. ReadersTyped' /\ NetTyped'
    BY <1>2 DEF StartReader, IInv, ReadersTyped, NetTyped
  <2>3. TokensOfCaller'
    BY <1>2 DEF StartReader, tokens, IInv, TokensOfCaller
  <2>4. QED
    BY <2>1, <2>2, <2>3 DEF IInv
<1>3. CASE fd' = [fd EXCEPT ![sock] = "closed"] /\ NewClient /\ handler' = FALSE /\ Return
  <2>1. CallTyped' /\ ReadersTyped' /\ step' \in {"none", "check"}
    BY <1>3, ReturnKeeps DEF StartReader, IInv
  <2>2. ClientTyped' /\ TokensOfCaller'
    BY <1>3, <2>1, NewClientKeeps
  <2>3. NetTyped'
    BY <1>3 DEF StartReader, IInv, NetTyped
  <2>4. QED
    BY <2>1, <2>2, <2>3 DEF IInv
<1>4. QED
  BY <1>1, <1>2, <1>3 DEF StartReader

(* A token is taken and gets a record.  Before a request both tables are   *)
(* empty, so that a token and a slot are free.                             *)
LEMMA SendOemRequestHookRawKeeps ==
    ASSUME IInv, SendOemRequestHookRaw
    PROVE  IInv'
<1> DEFINE free  == Tokens \ token_pool
           t     == CHOOSE i \in free : \A j \in free : i <= j
           slots == {i \in Tokens : history[i] = None}
           s     == CHOOSE i \in slots : \A j \in slots : i <= j
<1>1. /\ token_pool = {} /\ history \in [Tokens -> Tokens \union {None}]
      /\ \A i \in Tokens : history[i] = None
  BY DEF SendOemRequestHookRaw, IInv, TokensOfCaller
<1>2. 1 \in Tokens /\ \A j \in Tokens : 1 <= j
  BY RilAssumption DEF Tokens
<1>3. free = Tokens /\ slots = Tokens
  BY <1>1
<1>4. t \in Tokens /\ s \in Tokens
  BY <1>2, <1>3
<1>5. /\ step = "send" /\ UNCHANGED <<client, net>>
      /\ \/ history' = history /\ Return /\ UNCHANGED token_pool
         \/ /\ token_pool' = token_pool \union {t} /\ history' = [history EXCEPT ![s] = t]
            /\ token' = t /\ step' = "write"
            /\ UNCHANGED <<hal, caller, left, joins, readers>>
  BY <1>2, <1>3 DEF SendOemRequestHookRaw
<1> HIDE DEF t, s, free, slots
<1>6. ClientTyped' /\ NetTyped'
  BY <1>5 DEF client, net, IInv, ClientTyped, NetTyped
<1>7. CASE history' = history /\ Return /\ UNCHANGED token_pool
  <2>1. CallTyped' /\ ReadersTyped' /\ step' \in {"none", "check"}
    BY <1>5, <1>7, ReturnKeeps DEF IInv
  <2>2. TokensOfCaller'
    BY <1>1, <1>7, <2>1 DEF TokensOfCaller
  <2>3. QED
    BY <1>6, <2>1, <2>2 DEF IInv
<1>8. CASE /\ token_pool' = token_pool \union {t} /\ history' = [history EXCEPT ![s] = t]
           /\ token' = t /\ step' = "write"
           /\ UNCHANGED <<hal, caller, left, joins, readers>>
  <2>1. CallTyped' /\ ReadersTyped'
    BY <1>4, <1>5, <1>8 DEF readers, IInv, CallTyped, ReadersTyped
  <2>2. None \notin Tokens
    BY RilAssumption DEF Tokens
  <2>3. TokensOfCaller'
    BY <1>1, <1>4, <1>8, <2>2 DEF TokensOfCaller
  <2>4. QED
    BY <1>6, <2>1, <2>3 DEF IInv
<1>9. QED
  BY <1>5, <1>7, <1>8

(* The caller frees what the reader has left of its token.                 *)
LEMMA FreeTokenKeeps ==
    ASSUME IInv, step \in {"write", "free"}, FreeToken
    PROVE  CallTyped' /\ ReadersTyped' /\ TokensOfCaller'
<1>1. CallTyped' /\ ReadersTyped' /\ step' \in {"none", "check"}
  BY ReturnKeeps DEF FreeToken, IInv
<1>2. /\ history \in [Tokens -> Tokens \union {None}] /\ token \in Tokens
      /\ token_pool \subseteq {token}
      /\ \A i \in Tokens : history[i] \in {None, token}
      /\ \A i, j \in Tokens : history[i] = token /\ history[j] = token => i = j
  BY DEF IInv, TokensOfCaller
<1>3. /\ history' \in [Tokens -> Tokens \union {None}]
      /\ \A i \in Tokens : history'[i] = None
  BY <1>2, ClearClears, ClearEmpties DEF FreeToken
<1>4. token_pool' = {}
  BY <1>2 DEF FreeToken
<1>5. QED
  BY <1>1, <1>3, <1>4 DEF TokensOfCaller

(* A request is written, or the write fails.                               *)
LEMMA blockingWriteKeeps ==
    ASSUME IInv, blockingWrite
    PROVE  IInv'
<1>1. CASE Delivered
  <2>1. CallTyped' /\ ClientTyped' /\ TokensOfCaller'
    BY <1>1 DEF Delivered, blockingWrite, client, tokens, IInv, CallTyped, ClientTyped,
                TokensOfCaller
  <2>2. ReadersTyped' /\ NetTyped'
    BY <1>1 DEF Delivered, blockingWrite, readers, IInv, ReadersTyped, NetTyped, TokensOfCaller
  <2>3. QED
    BY <2>1, <2>2 DEF IInv
<1>2. CASE WriteFails
  <2>1. CallTyped' /\ ReadersTyped' /\ TokensOfCaller'
    BY <1>2, FreeTokenKeeps DEF WriteFails, blockingWrite
  <2>2. ClientTyped' /\ NetTyped'
    BY <1>2 DEF WriteFails, blockingWrite, client, IInv, ClientTyped, NetTyped
  <2>3. QED
    BY <2>1, <2>2 DEF IInv
<1>3. CASE HungUp
  <2>1. CallTyped' /\ ReadersTyped' /\ TokensOfCaller'
    BY <1>3, FreeTokenKeeps DEF HungUp, blockingWrite
  <2>2. ClientTyped' /\ NetTyped'
    BY <1>3 DEF HungUp, blockingWrite, client, IInv, ClientTyped, NetTyped
  <2>3. QED
    BY <2>1, <2>2 DEF IInv
<1>4. QED
  BY <1>1, <1>2, <1>3 DEF blockingWrite

(* A request that was written frees its token at once.                     *)
LEMMA SentKeeps ==
    ASSUME IInv, Sent
    PROVE  IInv'
<1>1. CallTyped' /\ ReadersTyped' /\ TokensOfCaller'
  BY FreeTokenKeeps DEF Sent
<1>2. ClientTyped' /\ NetTyped'
  BY DEF Sent, client, net, IInv, ClientTyped, NetTyped
<1>3. QED
  BY <1>1, <1>2 DEF IInv

(* The socket is to be disconnected and its reader joined.                 *)
LEMMA ril_closeKeeps ==
    ASSUME IInv, ril_close
    PROVE  IInv'
<1>1. CallTyped' /\ ClientTyped'
  BY RilAssumption DEF ril_close, Disconnect_RILD, Freed, Readers, call, client, IInv,
     CallTyped, ClientTyped
<1>2. ReadersTyped'
  BY RilAssumption DEF ril_close, Disconnect_RILD, Freed, Readers, readers, IInv,
     ClientTyped, ReadersTyped
<1>3. NetTyped'
  BY RilAssumption DEF ril_close, Disconnect_RILD, Freed, Readers, net, IInv, NetTyped,
     ClientTyped
<1>4. TokensOfCaller'
  BY RilAssumption DEF ril_close, Disconnect_RILD, Freed, Readers, call, tokens, IInv,
     CallTyped, TokensOfCaller
<1>5. QED
  BY <1>1, <1>2, <1>3, <1>4 DEF IInv

(* The client disconnects again before it is freed.                        *)
LEMMA CloseClient_RILDKeeps ==
    ASSUME IInv, CloseClient_RILD
    PROVE  IInv'
<1>1. CallTyped' /\ ClientTyped'
  BY RilAssumption DEF CloseClient_RILD, Disconnect_RILD, Freed, Readers, call, client,
     IInv, CallTyped, ClientTyped
<1>2. ReadersTyped'
  BY RilAssumption DEF CloseClient_RILD, Disconnect_RILD, Freed, Readers, readers, IInv,
     ClientTyped, ReadersTyped
<1>3. NetTyped'
  BY RilAssumption DEF CloseClient_RILD, Disconnect_RILD, Freed, Readers, net, IInv,
     NetTyped, ClientTyped
<1>4. TokensOfCaller'
  BY RilAssumption DEF CloseClient_RILD, Disconnect_RILD, Freed, Readers, call, tokens,
     IInv, CallTyped, TokensOfCaller
<1>5. QED
  BY <1>1, <1>2, <1>3, <1>4 DEF IInv

(* The client is freed.                                                    *)
LEMMA CloseKeeps ==
    ASSUME IInv, Close
    PROVE  IInv'
<1>1. CallTyped' /\ ClientTyped'
  BY RilAssumption DEF Close, Freed, Readers, call, client, IInv, CallTyped, ClientTyped
<1>2. ReadersTyped'
  BY RilAssumption DEF Close, Freed, Readers, readers, IInv, ClientTyped, ReadersTyped
<1>3. NetTyped'
  BY RilAssumption DEF Close, Freed, Readers, net, IInv, NetTyped, ClientTyped
<1>4. TokensOfCaller'
  BY RilAssumption DEF Close, Freed, Readers, call, tokens, IInv, CallTyped,
     TokensOfCaller
<1>5. QED
  BY <1>1, <1>2, <1>3, <1>4 DEF IInv

(* A reader waits for the socket and the pipe that it finds in the client. *)
LEMMA LoopKeeps ==
    ASSUME IInv, NEW c \in Conns, Loop(c)
    PROVE  IInv'
<1>1. CallTyped' /\ ClientTyped'
  BY RilAssumption DEF Loop, ReaderAt, Goto, call, client, IInv, CallTyped, ClientTyped
<1>2. ReadersTyped'
  BY RilAssumption DEF Loop, ReaderAt, Goto, readers, IInv, ClientTyped, ReadersTyped
<1>3. NetTyped'
  BY RilAssumption DEF Loop, ReaderAt, Goto, net, IInv, NetTyped, ClientTyped
<1>4. TokensOfCaller'
  BY RilAssumption DEF Loop, ReaderAt, Goto, call, tokens, IInv, CallTyped,
     TokensOfCaller
<1>5. QED
  BY <1>1, <1>2, <1>3, <1>4 DEF IInv

(* The reader goes on to read, or the process is aborted.                  *)
LEMMA SocketReadableKeeps ==
    ASSUME IInv, NEW c \in Conns, SocketReadable(c)
    PROVE  IInv'
<1>1. CASE Abort
  BY <1>1, AbortKeeps
<1>2. CASE /\ Goto(c, IF sock = watch[c].sock THEN "read" ELSE "top")
           /\ watch' = [watch EXCEPT ![c] = Nothing]
           /\ UNCHANGED <<call, client, tokens, got, gone, net>>
  <2>1. CallTyped' /\ ClientTyped' /\ TokensOfCaller'
    BY <1>2 DEF call, client, tokens, IInv, CallTyped, ClientTyped, TokensOfCaller
  <2>2. ReadersTyped' /\ NetTyped'
    BY <1>2 DEF Goto, Nothing, net, IInv, ReadersTyped, NetTyped
  <2>3. QED
    BY <2>1, <2>2 DEF IInv
<1>3. QED
  BY <1>1, <1>2 DEF SocketReadable

(* The command pipe makes the reader close the socket, or the process is   *)
(* aborted.                                                                *)
LEMMA PipeReadableKeeps ==
    ASSUME IInv, NEW c \in Conns, PipeReadable(c)
    PROVE  IInv'
<1>1. CASE Abort
  BY <1>1, AbortKeeps
<1>2. CASE /\ Goto(c, "top")
           /\ fd' = [fd EXCEPT ![sock] = "closed"]
           /\ sock' = None /\ b_connect' = FALSE
           /\ watch' = [watch EXCEPT ![c] = Nothing]
           /\ UNCHANGED <<call, pipefd, tid_reader, handler, tokens, got, gone,
                          up, told, reports, pending, inbox>>
  <2>1. CallTyped' /\ TokensOfCaller'
    BY <1>2 DEF call, tokens, IInv, CallTyped, TokensOfCaller
  <2>2. ClientTyped'
    BY <1>2 DEF IInv, ClientTyped
  <2>3. ReadersTyped' /\ NetTyped'
    BY <1>2 DEF Goto, Nothing, IInv, ReadersTyped, NetTyped
  <2>4. QED
    BY <2>1, <2>2, <2>3 DEF IInv
<1>3. QED
  BY <1>1, <1>2 DEF PipeReadable

(* An answer is processed next, a report may call back.                    *)
LEMMA ReadKeeps ==
    ASSUME IInv, NEW c \in Conns, Read(c)
    PROVE  IInv'
<1>1. CallTyped' /\ ClientTyped' /\ TokensOfCaller'
  BY DEF Read, call, client, tokens, IInv, CallTyped, ClientTyped, TokensOfCaller
<1>2. pipefd \in Conns
  BY DEF Read, IInv, ClientTyped
<1>3. PICK m \in inbox[pipefd] :
        /\ inbox' = [inbox EXCEPT ![pipefd] = @ \ {m}]
        /\ got' = [got EXCEPT ![c] = IF m = Report THEN None ELSE m]
        /\ IF m = Report THEN processUnsolicited(c) ELSE Goto(c, "answer")
  BY DEF Read
<1>4. m \in Tokens \union {Report} /\ None \notin Tokens
  BY <1>2, <1>3, RilAssumption DEF IInv, NetTyped, Tokens
<1>5. NetTyped'
  BY <1>2, <1>3 DEF Read, IInv, NetTyped
<1>6. got' \in [Conns -> Tokens \union {None}]
  BY <1>3, <1>4 DEF IInv, ReadersTyped
<1>7. CASE m = Report
  BY <1>1, <1>3, <1>4, <1>5, <1>6, <1>7
     DEF Read, processUnsolicited, Goto, IInv, ReadersTyped
<1>8. CASE m # Report
  BY <1>1, <1>3, <1>4, <1>5, <1>6, <1>8
     DEF Read, Goto, IInv, ReadersTyped
<1>9. QED
  BY <1>7, <1>8

(* The reader has read everything.                                         *)
LEMMA NoMoreKeeps ==
    ASSUME IInv, NEW c \in Conns, NoMore(c)
    PROVE  IInv'
<1>1. CallTyped' /\ ClientTyped'
  BY RilAssumption DEF NoMore, ReaderAt, Goto, call, client, IInv, CallTyped,
     ClientTyped
<1>2. ReadersTyped'
  BY RilAssumption DEF NoMore, ReaderAt, Goto, readers, IInv, ClientTyped, ReadersTyped
<1>3. NetTyped'
  BY RilAssumption DEF NoMore, ReaderAt, Goto, net, IInv, NetTyped, ClientTyped
<1>4. TokensOfCaller'
  BY RilAssumption DEF NoMore, ReaderAt, Goto, call, tokens, IInv, CallTyped,
     TokensOfCaller
<1>5. QED
  BY <1>1, <1>2, <1>3, <1>4 DEF IInv

(* The stream ends, or the process is aborted.                             *)
LEMMA ReadFailsKeeps ==
    ASSUME IInv, NEW c \in Conns, ReadFails(c)
    PROVE  IInv'
<1>1. CASE Abort
  BY <1>1, AbortKeeps
<1>2. CASE Goto(c, "eof") /\ UNCHANGED <<call, client, tokens, watch, got, gone, net>>
  <2>1. CallTyped' /\ ClientTyped' /\ TokensOfCaller'
    BY <1>2 DEF call, client, tokens, IInv, CallTyped, ClientTyped, TokensOfCaller
  <2>2. ReadersTyped' /\ NetTyped'
    BY <1>2 DEF Goto, net, IInv, ReadersTyped, NetTyped
  <2>3. QED
    BY <2>1, <2>2 DEF IInv
<1>3. QED
  BY <1>1, <1>2 DEF ReadFails

(* The reader closes the socket that is in the client.                     *)
LEMMA EndOfStreamKeeps ==
    ASSUME IInv, NEW c \in Conns, EndOfStream(c)
    PROVE  IInv'
<1>1. CallTyped' /\ TokensOfCaller'
  BY DEF EndOfStream, call, tokens, IInv, CallTyped, TokensOfCaller
<1>2. ReadersTyped'
  BY DEF EndOfStream, Goto, IInv, ReadersTyped
<1>3. ClientTyped' /\ NetTyped'
  BY DEF EndOfStream, IInv, ClientTyped, NetTyped
<1>4. QED
  BY <1>1, <1>2, <1>3 DEF IInv

(* The reader frees the token of the answer and its record, in two steps;  *)
(* either may be another request's by now.                                 *)
LEMMA processSolicitedKeeps ==
    ASSUME IInv, NEW c \in Conns, processSolicited(c)
    PROVE  IInv'
<1>1. CallTyped' /\ ClientTyped' /\ NetTyped'
  BY DEF processSolicited, call, client, net, IInv, CallTyped, ClientTyped, NetTyped
<1>2. ReadersTyped'
  BY DEF processSolicited, ReaderAt, Goto, IInv, ReadersTyped
<1>3. history \in [Tokens -> Tokens \union {None}]
  BY DEF IInv, TokensOfCaller
<1>4. UNCHANGED tokens => TokensOfCaller'
  BY DEF processSolicited, call, tokens, IInv, TokensOfCaller
<1>5. token_pool' = token_pool \ {got[c]} /\ UNCHANGED history => TokensOfCaller'
  BY <1>3, FreedTwice DEF processSolicited, call, IInv
<1>6. history' = Clear(history, got[c]) /\ UNCHANGED token_pool => TokensOfCaller'
  BY <1>3, ClearClears, FreedTwice DEF processSolicited, call, IInv
<1>7. TokensOfCaller'
  <2>1. \/ UNCHANGED tokens
        \/ token_pool' = token_pool \ {got[c]} /\ UNCHANGED history
        \/ history' = Clear(history, got[c]) /\ UNCHANGED token_pool
    BY DEF processSolicited
  <2>2. QED
    BY <1>4, <1>5, <1>6, <2>1 DEF IInv
<1>8. QED
  BY <1>1, <1>2, <1>7 DEF IInv

(* A report's callback takes the lock, or has nothing to do.               *)
LEMMA LockReaderKeeps ==
    ASSUME IInv, NEW c \in Conns, LockReader(c)
    PROVE  IInv'
<1>1. c # None
  BY RilAssumption DEF Conns
<1>2. CallTyped'
  <2>1. CASE Lock(c)
    BY <1>1, <2>1, RilAssumption DEF Lock, IInv, CallTyped
  <2>2. CASE UNCHANGED call
    BY <2>2 DEF call, IInv, CallTyped
  <2>3. QED
    BY <2>1, <2>2 DEF LockReader
<1>3. ClientTyped' /\ NetTyped'
  BY DEF LockReader, client, net, IInv, ClientTyped, NetTyped
<1>4. ReadersTyped'
  BY DEF LockReader, Goto, IInv, ReadersTyped
<1>5. TokensOfCaller'
  BY DEF LockReader, Lock, call, tokens, IInv, CallTyped, TokensOfCaller
<1>6. QED
  BY <1>2, <1>3, <1>4, <1>5 DEF IInv

(* A reader of a freed client aborts the process, or gets away with it.    *)
LEMMA UsesFreedKeeps ==
    ASSUME IInv, NEW c \in Conns, UsesFreed(c)
    PROVE  IInv'
<1>1. CASE Abort
  BY <1>1, AbortKeeps
<1>2. CASE Goto(c, "done") /\ UNCHANGED <<call, client, tokens, watch, got, gone, net>>
  <2>1. CallTyped' /\ ClientTyped' /\ TokensOfCaller'
    BY <1>2 DEF call, client, tokens, IInv, CallTyped, ClientTyped, TokensOfCaller
  <2>2. ReadersTyped' /\ NetTyped'
    BY <1>2 DEF Goto, net, IInv, ReadersTyped, NetTyped
  <2>3. QED
    BY <2>1, <2>2 DEF IInv
<1>3. QED
  BY <1>1, <1>2 DEF UsesFreed

(* The daemon answers a request.                                           *)
LEMMA AnswersKeeps ==
    ASSUME IInv, NEW c \in Conns, Answers(c)
    PROVE  IInv'
<1>1. CallTyped' /\ ClientTyped'
  BY RilAssumption DEF Answers, call, client, IInv, CallTyped, ClientTyped
<1>2. ReadersTyped'
  BY RilAssumption DEF Answers, readers, IInv, ClientTyped, ReadersTyped
<1>3. NetTyped'
  BY RilAssumption DEF Answers, net, IInv, NetTyped, ClientTyped
<1>4. TokensOfCaller'
  BY RilAssumption DEF Answers, call, tokens, IInv, CallTyped, TokensOfCaller
<1>5. QED
  BY <1>1, <1>2, <1>3, <1>4 DEF IInv

(* The daemon reports a band.                                              *)
LEMMA ReportsKeeps ==
    ASSUME IInv, NEW c \in Conns, Reports(c)
    PROVE  IInv'
<1>1. CallTyped' /\ ClientTyped'
  BY RilAssumption DEF Reports, call, client, IInv, CallTyped, ClientTyped
<1>2. ReadersTyped'
  BY RilAssumption DEF Reports, readers, IInv, ClientTyped, ReadersTyped
<1>3. NetTyped'
  BY RilAssumption DEF Reports, net, IInv, NetTyped, ClientTyped
<1>4. TokensOfCaller'
  BY RilAssumption DEF Reports, call, tokens, IInv, CallTyped, TokensOfCaller
<1>5. QED
  BY <1>1, <1>2, <1>3, <1>4 DEF IInv

(* The daemon hangs up.                                                    *)
LEMMA HangsUpKeeps ==
    ASSUME IInv, NEW c \in Conns, HangsUp(c)
    PROVE  IInv'
<1>1. CallTyped' /\ ClientTyped'
  BY RilAssumption DEF HangsUp, call, client, IInv, CallTyped, ClientTyped
<1>2. ReadersTyped'
  BY RilAssumption DEF HangsUp, readers, IInv, ClientTyped, ReadersTyped
<1>3. NetTyped'
  BY RilAssumption DEF HangsUp, net, IInv, NetTyped, ClientTyped
<1>4. TokensOfCaller'
  BY RilAssumption DEF HangsUp, call, tokens, IInv, CallTyped, TokensOfCaller
<1>5. QED
  BY <1>1, <1>2, <1>3, <1>4 DEF IInv

(* The requests and answers of any length, with any errors, leave the      *)
(* tables as IInv says.                                                    *)
THEOREM Invariance == Spec => []IInv
<1>1. Init => IInv
  BY InitHolds
<1>2. IInv /\ [Next]_vars => IInv'
  <2> SUFFICES ASSUME IInv, [Next]_vars PROVE IInv'
    OBVIOUS
  <2>1. CASE ril_open \/ Enter \/ LockHal \/ ril_close
    BY <2>1, ril_openKeeps, EnterKeeps, LockHalKeeps, ril_closeKeeps
  <2>2. CASE Request
    BY <2>2, ril_connect_if_requiredKeeps, Connect_RILDKeeps, StartReaderKeeps,
       SendOemRequestHookRawKeeps, blockingWriteKeeps, SentKeeps DEF Request
  <2>3. CASE Join
    BY <2>3, CloseClient_RILDKeeps, CloseKeeps, AbortKeeps DEF Join, JoinFails
  <2>4. ASSUME NEW c \in Conns, RxReaderFunc(c)
        PROVE  IInv'
    BY <2>4, LoopKeeps, SocketReadableKeeps, PipeReadableKeeps, ReadKeeps, NoMoreKeeps,
       ReadFailsKeeps, EndOfStreamKeeps, processSolicitedKeeps, UsesFreedKeeps DEF RxReaderFunc
  <2>5. ASSUME NEW c \in Conns, LockReader(c) \/ Daemon(c)
        PROVE  IInv'
    BY <2>5, LockReaderKeeps, AnswersKeeps, ReportsKeeps, HangsUpKeeps DEF Daemon
  <2>6. CASE UNCHANGED vars
    <3>1. CallTyped' /\ ClientTyped'
      BY <2>6 DEF vars, call, client, tokens, readers, net, IInv, CallTyped, ClientTyped
    <3>2. ReadersTyped' /\ NetTyped'
      BY <2>6 DEF vars, call, client, tokens, readers, net, IInv, ReadersTyped, NetTyped
    <3>3. TokensOfCaller'
      BY <2>6 DEF vars, call, client, tokens, readers, net, IInv, TokensOfCaller
    <3>4. QED
      BY <3>1, <3>2, <3>3 DEF IInv
  <2>7. QED
    BY <2>1, <2>2, <2>3, <2>4, <2>5, <2>6 DEF Next
<1>3. QED
  BY <1>1, <1>2, PTL DEF Spec

(* Every field of the client, its readers and the connections stays in its *)
(* range, and only an answer is processed as one (processSolicited).       *)
THEOREM TypeCorrect == Spec => []TypeOK
<1>1. IInv => TypeOK
  <2> SUFFICES ASSUME IInv PROVE TypeOK
    OBVIOUS
  <2>1. ASSUME NEW c \in Conns
        PROVE  /\ reader[c] \in {"none", "top", "select", "read", "answer", "free", "clear",
                                 "callback", "eof", "done"}
               /\ {watch[c].sock, watch[c].pipe} \subseteq Conns \union {None}
               /\ got[c] \in Tokens \union {Report, None}
               /\ reader[c] \in {"answer", "free", "clear"} => got[c] \in Tokens
               /\ fd[c] \in {"unused", "open", "closed"}
               /\ pending[c] \subseteq Tokens /\ inbox[c] \subseteq Tokens \union {Report}
    BY DEF IInv, ReadersTyped, NetTyped
  <2>2. QED
    BY <2>1 DEF IInv, CallTyped, ClientTyped, ReadersTyped, NetTyped, TokensOfCaller, TypeOK
<1>2. QED
  BY <1>1, Invariance, PTL

(* Between two requests both tables are empty, although sender and reader  *)
(* free the same token and an answer may be another request's              *)
(* (SendOemRequestHookRaw, FreeToken, ClearReqHistory, processSolicited).  *)
THEOREM TokensAreReturned == Spec => []TokensReturned
<1>1. IInv => TokensReturned
  BY DEF IInv, TokensOfCaller, TokensReturned
<1>2. QED
  BY <1>1, Invariance, PTL
-----------------------------------------------------------------------------
(* The tables of the same library (RilAnswers), for any callers, requests, *)
(* handlers and tables: at most one run of a handler a token, and no token *)
(* forgotten.                                                              *)

CONSTANTS Callers, Requests, Handled, TableSize, MaxSends, Reader
VARIABLES place, doing, held, reg, answer, req_handlers, b_del_handler, mutex_modem,
          in_use, records, unanswered, runs, sends

Library == INSTANCE RilAnswers
           WITH at <- place, token <- held, token_pool <- in_use,
                history <- records, pending <- unanswered

Registering == {"search", "update", "fill", "fill handler"}

(* A handler has run for a token in use only while the reader is about to  *)
(* give that token back: from the registration that RunHandler may make    *)
(* until ReaderFrees.                                                      *)
RunIsFreed ==
    /\ \A t \in in_use : runs[t] = 1 =>
          t = held[Reader] /\ place[Reader] \in {"free"} \union Registering
    /\ place[Reader] = "read" =>
          held[Reader] \in Tokens /\ runs[held[Reader]] = 0

(* The reader registers on its way to freeing the token.                   *)
LibraryInv ==
    /\ {DOMAIN place, DOMAIN held, DOMAIN reg} = {Callers \union {Reader}}
    /\ runs \in [Tokens -> 0 .. 1] /\ in_use \subseteq Tokens
    /\ place[Reader] \in {"idle", "read", "free", "clear"} \union Registering
    /\ place[Reader] \in Registering =>
          "then" \in DOMAIN reg[Reader] /\ reg[Reader].then = "free"
    /\ RunIsFreed

(* A step that leaves the reader and the counts alone.                     *)
LEMMA OthersKeep ==
    ASSUME LibraryInv, {DOMAIN place', DOMAIN held', DOMAIN reg'} = {Callers \union {Reader}},
           place'[Reader] = place[Reader], held'[Reader] = held[Reader],
           reg'[Reader] = reg[Reader], runs' = runs, in_use' \subseteq in_use
    PROVE  LibraryInv'
BY DEF LibraryInv, RunIsFreed

(* The least of some tokens is one of them.                                *)
LEMMA LeastToken ==
    ASSUME NEW S \in SUBSET Tokens, S # {}
    PROVE  Library!Least(S) \in S
<1> DEFINE Less == OpToRel(<, Nat)
<1>1. S \subseteq Nat
  BY DEF Tokens
<1>2. PICK i \in S : \A j \in S : <<j, i>> \notin Less
  <2>1. IsWellFoundedOn(Less, Nat)
    BY NatLessThanWellFounded
  <2> HIDE DEF Less
  <2>2. QED
    BY <1>1, <2>1, WFMin
<1>3. \A j \in S : ~(j < i)
  BY <1>1, <1>2 DEF OpToRel
<1>4. \A j \in S : i <= j
  BY <1>1, <1>3
<1>5. QED
  BY <1>4 DEF Library!Least

(* Registrations of a caller, and a caller's own steps but the allocation. *)
LEMMA CallerKeeps ==
    ASSUME LibraryInv, Reader \notin Callers, NEW c \in Callers,
           \/ Library!Registration(c) \/ Library!RegisterOwn(c) \/ Library!Call(c)
           \/ Library!RecordReqHistory(c) \/ Library!blockingWrite(c)
           \/ Library!CheckHandler(c) \/ Library!FreeToken(c) \/ Library!ClearReqHistory(c)
    PROVE  LibraryInv'
<1> USE DEF Library!Goto, Library!Register, Library!Registered, Library!Ends, LibraryInv,
            Library!sending, Library!tables, Library!thread
<1>1. CASE Library!Registration(c)
  <2>1. CASE Library!Search(c)
    BY <2>1, OthersKeep DEF Library!Search
  <2>2. CASE Library!UpdateSlot(c)
    BY <2>2, OthersKeep DEF Library!UpdateSlot
  <2>3. CASE Library!FillSlot(c)
    <3>1. UNCHANGED << held, runs, in_use >>
      BY <2>3 DEF Library!FillSlot
    <3>2. CASE Library!Goto(c, "fill handler") /\ UNCHANGED reg
      BY <3>1, <3>2, OthersKeep
    <3>3. CASE Library!Registered(c)
      BY <3>1, <3>3, OthersKeep
    <3>4. QED
      BY <2>3, <3>2, <3>3 DEF Library!FillSlot
  <2>4. QED
    BY <1>1, <2>1, <2>2, <2>3 DEF Library!Registration
<1>2. CASE Library!RegisterOwn(c)
  BY <1>2, OthersKeep DEF Library!RegisterOwn
<1>3. CASE Library!Call(c)
  BY <1>3, OthersKeep DEF Library!Call
<1>4. CASE Library!RecordReqHistory(c)
  BY <1>4, OthersKeep DEF Library!RecordReqHistory
<1>5. CASE Library!blockingWrite(c)
  BY <1>5, OthersKeep DEF Library!blockingWrite
<1>6. CASE Library!CheckHandler(c)
  BY <1>6, OthersKeep DEF Library!CheckHandler
<1>7. CASE Library!FreeToken(c)
  BY <1>7, OthersKeep DEF Library!FreeToken
<1>8. CASE Library!ClearReqHistory(c)
  BY <1>8, OthersKeep DEF Library!ClearReqHistory
<1>9. QED
  BY <1>1, <1>2, <1>3, <1>4, <1>5, <1>6, <1>7, <1>8

(* A new token has not been run for.                                       *)
LEMMA AllocateTokenKeeps ==
    ASSUME LibraryInv, Reader \notin Callers, NEW c \in Callers, Library!AllocateToken(c)
    PROVE  LibraryInv'
<1> DEFINE free == Tokens \ in_use
           t    == Library!Least(free)
<1> USE DEF Library!Goto, Library!Register, Library!Ends, LibraryInv, Library!tables
<1>1. CASE free = {}
  BY <1>1, OthersKeep DEF Library!AllocateToken, Library!Tokens, Tokens
<1>2. CASE free # {}
  <2>1. t \in Tokens
    BY <1>2, LeastToken
  <2>2. /\ in_use' = in_use \union {t} /\ runs' = [runs EXCEPT ![t] = 0]
        /\ held' = [held EXCEPT ![c] = t] /\ place' = [place EXCEPT ![c] = "record"]
        /\ reg' = reg
    BY <1>2 DEF Library!AllocateToken, Library!Tokens, Tokens
  <2> HIDE DEF t
  <2>3. /\ runs' \in [Tokens -> 0 .. 1] /\ in_use' \subseteq Tokens
        /\ runs'[t] = 0 /\ \A i \in Tokens : i # t => runs'[i] = runs[i]
    BY <2>1, <2>2
  <2>4. /\ {DOMAIN place', DOMAIN held', DOMAIN reg'} = {Callers \union {Reader}}
        /\ place'[Reader] = place[Reader] /\ held'[Reader] = held[Reader]
    BY <2>2
  <2>5. RunIsFreed'
    BY <2>1, <2>2, <2>3, <2>4 DEF RunIsFreed
  <2>6. QED
    BY <2>2, <2>3, <2>4, <2>5
<1>3. QED
  BY <1>1, <1>2

(* The reader registers, and returns to free the token.                    *)
LEMMA ReaderRegisters ==
    ASSUME LibraryInv, Library!Registration(Reader)
    PROVE  LibraryInv'
<1> DEFINE R == Reader
<1>1. /\ place[R] \in Registering /\ UNCHANGED <<held, runs, in_use>>
      /\ {DOMAIN place', DOMAIN reg'} = {Callers \union {R}}
  BY DEF Library!Registration, Library!Search, Library!UpdateSlot, Library!FillSlot,
     Library!Goto, Library!Registered, Library!sending, LibraryInv, Registering
<1>2. \/ /\ place'[R] \in Registering /\ "then" \in DOMAIN reg'[R] /\ reg'[R].then = "free"
      \/ place'[R] = "free"
  <2>1. CASE Library!Search(R)
    <3>1. \A s : LET r == [reg EXCEPT ![R].slot = s]
                 IN  DOMAIN r[R] = DOMAIN reg[R] /\ r[R].then = reg[R].then
      BY <1>1 DEF LibraryInv
    <3>2. \/ \E s : reg' = [reg EXCEPT ![R].slot = s] /\ place'[R] \in Registering
          \/ place'[R] = reg[R].then
      BY <2>1 DEF Library!Search, Library!Goto, LibraryInv, Registering
    <3>3. QED
      BY <1>1, <3>1, <3>2 DEF LibraryInv
  <2>2. CASE Library!UpdateSlot(R)
    BY <1>1, <2>2 DEF Library!UpdateSlot, Library!Registered, Library!Goto, LibraryInv
  <2>3. CASE Library!FillSlot(R)
    BY <1>1, <2>3 DEF Library!FillSlot, Library!Registered, Library!Goto, LibraryInv, Registering
  <2>4. QED
    BY <2>1, <2>2, <2>3 DEF Library!Registration
<1>3. QED
  BY <1>1, <1>2 DEF LibraryInv, RunIsFreed, Registering

(* The reader runs a handler for a token it then gives back.               *)
LEMMA SolicitedKeeps ==
    ASSUME LibraryInv, Library!processSolicited
    PROVE  LibraryInv'
<1> USE DEF Library!Goto, Library!Register, LibraryInv, RunIsFreed, Registering
<1>1. CASE Library!ReadAnswer
  <2>1. /\ place[Reader] = "idle" /\ UNCHANGED <<reg, runs, in_use>>
        /\ \/ UNCHANGED <<place, held>>
           \/ \E t \in in_use : /\ place' = [place EXCEPT ![Reader] = "read"]
                               /\ held' = [held EXCEPT ![Reader] = t]
    BY <1>1 DEF Library!ReadAnswer
  <2>2. \A t \in in_use : runs[t] = 0
    BY <2>1
  <2>3. CASE UNCHANGED <<place, held>>
    BY <2>1, <2>3
  <2>4. ASSUME NEW t \in in_use, place' = [place EXCEPT ![Reader] = "read"],
               held' = [held EXCEPT ![Reader] = t]
        PROVE  LibraryInv'
    <3>1. /\ DOMAIN place' = DOMAIN place /\ DOMAIN held' = DOMAIN held
          /\ place'[Reader] = "read" /\ held'[Reader] = t
      BY <2>4
    <3>2. QED
      BY <2>1, <2>2, <3>1
  <2>5. QED
    BY <2>1, <2>3, <2>4
<1>2. CASE Library!NoHandler
  BY <1>2 DEF Library!NoHandler, Library!tables, Library!sending
<1>3. CASE Library!RunHandler
  <2>1. /\ place[Reader] = "read" /\ UNCHANGED <<held, in_use>>
        /\ runs' = [runs EXCEPT ![held[Reader]] = @ + 1]
    BY <1>3 DEF Library!RunHandler
  <2>2. \/ /\ place' = [place EXCEPT ![Reader] = "free"] /\ reg' = reg
        \/ /\ place' = [place EXCEPT ![Reader] = "search"]
           /\ \E id : reg' = [reg EXCEPT ![Reader] =
                                 [id |-> id, handler |-> None, slot |-> None, then |-> "free"]]
    BY <1>3 DEF Library!RunHandler
  <2>3. /\ runs' \in [Tokens -> 0 .. 1]
        /\ \A t \in in_use : runs'[t] = 1 => t = held[Reader]
    BY <2>1
  <2>4. CASE /\ place' = [place EXCEPT ![Reader] = "free"] /\ reg' = reg
    BY <2>1, <2>3, <2>4
  <2>5. ASSUME place' = [place EXCEPT ![Reader] = "search"],
               NEW id, reg' = [reg EXCEPT ![Reader] =
                         [id |-> id, handler |-> None, slot |-> None, then |-> "free"]]
        PROVE  LibraryInv'
    <3>1. /\ DOMAIN place' = DOMAIN place /\ DOMAIN reg' = DOMAIN reg
          /\ place'[Reader] = "search" /\ "then" \in DOMAIN reg'[Reader]
          /\ reg'[Reader].then = "free"
      BY <2>5
    <3>2. QED
      BY <2>1, <2>3, <3>1
  <2>6. QED
    BY <2>2, <2>4, <2>5
<1>4. CASE Library!ReaderFrees
  BY <1>4 DEF Library!ReaderFrees, Library!tables
<1>5. CASE Library!ReaderClears
  BY <1>5 DEF Library!ReaderClears, Library!tables
<1>6. QED
  BY <1>1, <1>2, <1>3, <1>4, <1>5 DEF Library!processSolicited

(* The invariant holds, and every step keeps it.                           *)
LEMMA LibraryStarts == Library!Init => LibraryInv
BY DEF Library!Init, Library!Threads, Library!Tokens, Tokens, LibraryInv, RunIsFreed,
   Registering

LEMMA LibraryKeeps ==
    ASSUME Reader \notin Callers, LibraryInv, [Library!Next]_(Library!vars)
    PROVE  LibraryInv'
<1>1. ASSUME NEW t \in Library!Threads, Library!Registration(t)
      PROVE  LibraryInv'
  BY <1>1, CallerKeeps, ReaderRegisters DEF Library!Threads
<1>2. ASSUME NEW c \in Callers,
             Library!RegisterOwn(c) \/ Library!Call(c) \/ Library!Sending(c)
      PROVE  LibraryInv'
  BY <1>2, CallerKeeps, AllocateTokenKeeps DEF Library!Sending
<1>3. CASE UNCHANGED Library!vars
  BY <1>3 DEF Library!vars, Library!thread, Library!sending, LibraryInv, RunIsFreed
<1>4. QED
  BY <1>1, <1>2, <1>3, SolicitedKeeps DEF Library!Next

(* However registrations, requests and answers interleave, and although    *)
(* sender and reader free the same token and an answer may find a token    *)
(* given to the next request, a handler runs at most once for a token that *)
(* was allocated (AllocateToken, processSolicited).  The reader is a       *)
(* thread of its own.                                                      *)
THEOREM HandlersRunOnce ==
    ASSUME Reader \notin Callers
    PROVE  Library!Spec => []Library!HandlerRunsOnce
<1>1. LibraryInv => Library!HandlerRunsOnce
  BY DEF LibraryInv, Library!HandlerRunsOnce, Library!Tokens, Tokens
<1>2. QED
  BY <1>1, LibraryStarts, LibraryKeeps, PTL DEF Library!Spec
-----------------------------------------------------------------------------
(* Every token in use has somebody who will give it back: the daemon owes  *)
(* an answer for it, the reader is on its way to free it, or a sender is.  *)

Releasing == {"record", "write", "fail free", "free"}

Owed(t) ==
    \/ \E a \in DOMAIN unanswered : a.token = t
    \/ held[Reader] = t /\ place[Reader] \in {"read", "free"} \union Registering
    \/ \E c \in Callers : held[c] = t /\ place[c] \in Releasing

TokensOwed ==
    /\ unanswered \in [DOMAIN unanswered -> Nat \ {0}]
    /\ \A t \in in_use : Owed(t)

(* A caller may drop what it holds only once the token is free or somebody *)
(* else owes it.                                                           *)
LEMMA CallerOwes ==
    ASSUME TokensOwed, Reader \notin Callers, NEW c \in Callers,
           unanswered' \in [DOMAIN unanswered' -> Nat \ {0}],
           DOMAIN unanswered \subseteq DOMAIN unanswered',
           \A t \in (Callers \union {Reader}) \ {c} :
              place'[t] = place[t] /\ held'[t] = held[t],
           in_use' \subseteq in_use,
           place[c] \in Releasing =>
              \/ held[c] \notin in_use'
              \/ held'[c] = held[c] /\ place'[c] \in Releasing
              \/ \E a \in DOMAIN unanswered' : a.token = held[c]
    PROVE  TokensOwed'
<1> SUFFICES ASSUME NEW t \in in_use' PROVE Owed(t)'
  BY DEF TokensOwed
<1>1. Owed(t)
  BY DEF TokensOwed
<1>2. CASE \E a \in DOMAIN unanswered : a.token = t
  BY <1>2 DEF Owed
<1>3. CASE held[Reader] = t /\ place[Reader] \in {"read", "free"} \union Registering
  BY <1>3 DEF Owed
<1>4. CASE \E d \in Callers : held[d] = t /\ place[d] \in Releasing
  BY <1>4 DEF Owed
<1>5. QED
  BY <1>1, <1>2, <1>3, <1>4 DEF Owed

(* The write puts the token among what the daemon has to answer.           *)
LEMMA WriteIsAnswered ==
    ASSUME TokensOwed, NEW c \in Callers, Library!blockingWrite(c)
    PROVE  /\ unanswered' \in [DOMAIN unanswered' -> Nat \ {0}]
           /\ \E new : new.token = held[c] /\ DOMAIN unanswered' = DOMAIN unanswered \union {new}
<1> DEFINE new == [token |-> held[c], id |-> doing[c].id]
           one == [e \in {new} |-> 1]
<1>1. unanswered' = [e \in DOMAIN unanswered \union {new} |->
                        (IF e \in DOMAIN unanswered THEN unanswered[e] ELSE 0)
                      + (IF e \in {new} THEN one[e] ELSE 0)]
  BY DEF Library!blockingWrite, Library!SetToBag, Library!(+)
<1>2. QED
  BY <1>1 DEF TokensOwed

(* A caller's steps but the allocation.                                    *)
LEMMA CallerReleases ==
    ASSUME LibraryInv, TokensOwed, Reader \notin Callers, NEW c \in Callers,
           \/ Library!Registration(c) \/ Library!RegisterOwn(c) \/ Library!Call(c)
           \/ Library!RecordReqHistory(c) \/ Library!blockingWrite(c)
           \/ Library!CheckHandler(c) \/ Library!FreeToken(c) \/ Library!ClearReqHistory(c)
    PROVE  TokensOwed'
<1> DEFINE Others == \A t \in (Callers \union {Reader}) \ {c} :
                        place'[t] = place[t] /\ held'[t] = held[t]
<1> USE DEF Library!Goto, Library!Register, Library!Registered, Library!Ends, LibraryInv,
            Library!sending, Library!tables, Library!thread
<1>1. CASE Library!Registration(c)
  <2>1. UNCHANGED <<unanswered, in_use, held>> /\ place[c] \in Registering
    BY <1>1 DEF Library!Registration, Library!Search, Library!UpdateSlot, Library!FillSlot,
       Registering
  <2>2. \E p : place' = [place EXCEPT ![c] = p]
    BY <1>1 DEF Library!Registration, Library!Search, Library!UpdateSlot, Library!FillSlot
  <2>3. Others /\ place[c] \notin Releasing
    BY <2>1, <2>2 DEF Registering, Releasing
  <2>4. QED
    BY <2>1, <2>3, CallerOwes DEF TokensOwed
<1>2. CASE Library!RegisterOwn(c) \/ Library!Call(c)
  <2>1. /\ Others /\ UNCHANGED <<unanswered, in_use>>
        /\ place[c] \notin Releasing
    BY <1>2 DEF Library!RegisterOwn, Library!Call, Releasing
  <2>2. QED
    BY <2>1, CallerOwes DEF TokensOwed
<1>3. CASE Library!RecordReqHistory(c)
  <2>1. /\ Others /\ UNCHANGED <<unanswered, in_use, held>>
        /\ place'[c] \in Releasing
    BY <1>3 DEF Library!RecordReqHistory, Releasing
  <2>2. QED
    BY <2>1, CallerOwes DEF TokensOwed
<1>4. CASE Library!blockingWrite(c)
  <2>1. Others /\ UNCHANGED in_use
    BY <1>4 DEF Library!blockingWrite
  <2>2. QED
    BY <1>4, <2>1, WriteIsAnswered, CallerOwes
<1>5. CASE Library!CheckHandler(c) \/ Library!ClearReqHistory(c)
  <2>1. /\ UNCHANGED <<unanswered, in_use>>
        /\ place[c] \notin Releasing
    BY <1>5 DEF Library!CheckHandler, Library!ClearReqHistory, Releasing
  <2>2. /\ \E p : place' = [place EXCEPT ![c] = p]
        /\ held' = held \/ held' = [held EXCEPT ![c] = None]
    BY <1>5 DEF Library!CheckHandler, Library!ClearReqHistory
  <2>3. Others
    BY <2>2
  <2>4. QED
    BY <2>1, <2>3, CallerOwes DEF TokensOwed
<1>6. CASE Library!FreeToken(c)
  <2>1. Others /\ UNCHANGED unanswered /\ in_use' = in_use \ {held[c]}
    BY <1>6 DEF Library!FreeToken
  <2>2. QED
    BY <2>1, CallerOwes DEF TokensOwed
<1>7. QED
  BY <1>1, <1>2, <1>3, <1>4, <1>5, <1>6

(* Who allocates a token holds it; without a free one the request ends.    *)
LEMMA AllocationIsOwed ==
    ASSUME LibraryInv, TokensOwed, Reader \notin Callers, NEW c \in Callers,
           Library!AllocateToken(c)
    PROVE  TokensOwed'
<1> USE DEF Library!Goto, Library!Register, Library!Ends, LibraryInv
<1>1. /\ place[c] = "send" /\ UNCHANGED unanswered
      /\ \A t \in (Callers \union {Reader}) \ {c} :
            place'[t] = place[t] /\ held'[t] = held[t]
  BY DEF Library!AllocateToken
<1>2. \/ UNCHANGED in_use
      \/ \E t : /\ in_use' = in_use \union {t}
               /\ held'[c] = t /\ place'[c] = "record"
  BY DEF Library!AllocateToken
<1>3. ASSUME NEW t \in in_use PROVE Owed(t)'
  <2>1. Owed(t)
    BY DEF TokensOwed
  <2>2. ASSUME NEW d \in Callers, held[d] = t, place[d] \in Releasing PROVE Owed(t)'
    <3>1. d # c
      BY <1>1, <2>2 DEF Releasing
    <3>2. QED
      BY <1>1, <2>2, <3>1 DEF Owed
  <2>3. QED
    BY <1>1, <2>1, <2>2 DEF Owed
<1>4. \A t \in in_use' : Owed(t)'
  <2>1. ASSUME NEW t, held'[c] = t, place'[c] = "record" PROVE Owed(t)'
    BY <2>1 DEF Owed, Releasing
  <2>2. QED
    BY <1>2, <1>3, <2>1
<1>5. QED
  BY <1>1, <1>4 DEF TokensOwed

(* What the reader does leaves the callers' tokens to them, and the tokens *)
(* the daemon still owes an answer for; what the reader holds it keeps on  *)
(* its way, or it is free.                                                 *)
LEMMA ReaderOwes ==
    ASSUME TokensOwed, Reader \notin Callers,
           unanswered' \in [DOMAIN unanswered' -> Nat \ {0}],
           \A c \in Callers : place'[c] = place[c] /\ held'[c] = held[c],
           in_use' \subseteq in_use,
           \A a \in DOMAIN unanswered \ DOMAIN unanswered' :
              \/ a.token \notin in_use
              \/ held'[Reader] = a.token /\ place'[Reader] = "read",
           place[Reader] \in {"read", "free"} \union Registering =>
              \/ held[Reader] \notin in_use'
              \/ /\ held'[Reader] = held[Reader]
                 /\ place'[Reader] \in {"read", "free"} \union Registering
    PROVE  TokensOwed'
<1> SUFFICES ASSUME NEW t \in in_use' PROVE Owed(t)'
  BY DEF TokensOwed
<1>1. Owed(t)
  BY DEF TokensOwed
<1>2. CASE \E a \in DOMAIN unanswered : a.token = t
  BY <1>2 DEF Owed
<1>3. CASE held[Reader] = t /\ place[Reader] \in {"read", "free"} \union Registering
  BY <1>3 DEF Owed
<1>4. CASE \E c \in Callers : held[c] = t /\ place[c] \in Releasing
  BY <1>4 DEF Owed
<1>5. QED
  BY <1>1, <1>2, <1>3, <1>4 DEF Owed

(* The reader registers, and returns to free the token.                    *)
LEMMA RegistrationReturns ==
    ASSUME LibraryInv, Library!Registration(Reader)
    PROVE  place'[Reader] \in {"free"} \union Registering
<1> USE DEF Library!Goto, Library!Registered, LibraryInv, Registering
<1>1. CASE Library!Search(Reader)
  <2>1. \E p \in {"update", "fill", reg[Reader].then} : place' = [place EXCEPT ![Reader] = p]
    BY <1>1 DEF Library!Search
  <2>2. reg[Reader].then = "free"
    BY <1>1 DEF Library!Search
  <2>3. QED
    BY <2>1, <2>2
<1>2. CASE Library!UpdateSlot(Reader)
  BY <1>2 DEF Library!UpdateSlot
<1>3. CASE Library!FillSlot(Reader)
  BY <1>3 DEF Library!FillSlot
<1>4. QED
  BY <1>1, <1>2, <1>3 DEF Library!Registration

(* The answer that is read is the one that goes; refused, its token is not *)
(* in use, and otherwise the reader has it.                                *)
LEMMA ReadIsOwed ==
    ASSUME LibraryInv, TokensOwed, Library!ReadAnswer
    PROVE  /\ unanswered' \in [DOMAIN unanswered' -> Nat \ {0}]
           /\ \A a \in DOMAIN unanswered \ DOMAIN unanswered' :
                 \/ a.token \notin in_use
                 \/ held'[Reader] = a.token /\ place'[Reader] = "read"
<1>1. PICK a \in DOMAIN unanswered :
         /\ unanswered' = Library!(-)(unanswered, Library!SetToBag({a}))
         /\ IF a.token \notin in_use THEN UNCHANGED <<place, held, answer>>
            ELSE /\ Library!Goto(Reader, "read") /\ answer' = a.id
                 /\ held' = [held EXCEPT ![Reader] = a.token]
  BY DEF Library!ReadAnswer, Library!BagToSet
<1>2. \/ a.token \notin in_use
      \/ held'[Reader] = a.token /\ place'[Reader] = "read"
  BY <1>1 DEF Library!Goto, LibraryInv
<1> DEFINE less == [e \in DOMAIN unanswered |->
                      IF e \in {a} THEN unanswered[e] - [d \in {a} |-> 1][e] ELSE unanswered[e]]
<1>3. unanswered' = [e \in {d \in DOMAIN unanswered : less[d] > 0} |-> less[e]]
  BY <1>1 DEF Library!SetToBag, Library!(-)
<1>4. \A e \in DOMAIN unanswered :
         less[e] \in Int /\ (e # a => less[e] = unanswered[e] /\ less[e] > 0)
  BY DEF TokensOwed
<1> HIDE DEF less
<1>5. DOMAIN unanswered \ DOMAIN unanswered' \subseteq {a}
  BY <1>3, <1>4
<1>6. unanswered' \in [DOMAIN unanswered' -> Nat \ {0}]
  BY <1>3, <1>4
<1>7. QED
  BY <1>2, <1>5, <1>6

(* The reader's steps.                                                     *)
LEMMA ReaderReleases ==
    ASSUME LibraryInv, TokensOwed, Reader \notin Callers,
           Library!Registration(Reader) \/ Library!processSolicited
    PROVE  TokensOwed'
<1> DEFINE Others == \A c \in Callers : place'[c] = place[c] /\ held'[c] = held[c]
<1> USE DEF Library!Goto, Library!Register, LibraryInv, Registering, Library!tables,
            Library!sending
<1>1. CASE Library!Registration(Reader)
  <2>1. Others /\ UNCHANGED <<unanswered, in_use, held>>
    BY <1>1 DEF Library!Registration, Library!Search, Library!UpdateSlot, Library!FillSlot,
       Library!Registered
  <2>2. QED
    BY <1>1, <2>1, RegistrationReturns, ReaderOwes DEF TokensOwed
<1>2. CASE Library!ReadAnswer
  <2>1. Others /\ UNCHANGED in_use /\ place[Reader] = "idle"
    BY <1>2 DEF Library!ReadAnswer
  <2>2. QED
    BY <1>2, <2>1, ReadIsOwed, ReaderOwes
<1>3. CASE Library!NoHandler \/ Library!RunHandler
  <2>1. /\ Others /\ UNCHANGED <<unanswered, in_use, held>>
        /\ place'[Reader] \in {"free"} \union Registering
    <3>1. CASE Library!NoHandler
      BY <3>1 DEF Library!NoHandler
    <3>2. CASE Library!RunHandler
      <4>1. \/ place' = [place EXCEPT ![Reader] = "free"]
            \/ place' = [place EXCEPT ![Reader] = "search"]
        BY <3>2 DEF Library!RunHandler
      <4>2. UNCHANGED <<unanswered, in_use, held>>
        BY <3>2 DEF Library!RunHandler
      <4>3. QED
        BY <4>1, <4>2
    <3>3. QED
      BY <1>3, <3>1, <3>2
  <2>2. QED
    BY <2>1, ReaderOwes DEF TokensOwed
<1>4. CASE Library!ReaderFrees
  <2>1. /\ Others /\ UNCHANGED unanswered
        /\ in_use' = in_use \ {held[Reader]}
    BY <1>4 DEF Library!ReaderFrees
  <2>2. QED
    BY <2>1, ReaderOwes DEF TokensOwed
<1>5. CASE Library!ReaderClears
  <2>1. /\ Others /\ UNCHANGED <<unanswered, in_use>>
        /\ place[Reader] = "clear"
    BY <1>5 DEF Library!ReaderClears
  <2>2. QED
    BY <2>1, ReaderOwes DEF TokensOwed
<1>6. QED
  BY <1>1, <1>2, <1>3, <1>4, <1>5 DEF Library!processSolicited

(* "To prevent token pool overflow" (CheckHandler, NoHandler): however     *)
(* registrations, requests and answers interleave, no token in use is      *)
(* forgotten: its answer is still to come, or somebody is on the way to    *)
(* free it.  It is what TokensComeBack owes to the code; the rest is that  *)
(* threads run and the daemon answers.                                     *)
THEOREM NoTokenForgotten ==
    ASSUME Reader \notin Callers
    PROVE  Library!Spec => [](\A t \in in_use : Owed(t))
<1> DEFINE I == LibraryInv /\ TokensOwed
<1>1. Library!Init => I
  <2> SUFFICES ASSUME Library!Init PROVE I
    OBVIOUS
  <2>1. LibraryInv
    BY LibraryStarts
  <2>2. DOMAIN unanswered = {} /\ in_use = {}
    BY DEF Library!Init, Library!EmptyBag, Library!SetToBag
  <2>3. unanswered \in [DOMAIN unanswered -> Nat \ {0}]
    BY <2>2 DEF Library!Init, Library!EmptyBag, Library!SetToBag
  <2>4. QED
    BY <2>1, <2>2, <2>3 DEF TokensOwed
<1>2. I /\ [Library!Next]_(Library!vars) => I'
  <2> SUFFICES ASSUME LibraryInv, TokensOwed, [Library!Next]_(Library!vars) PROVE I'
    OBVIOUS
  <2>1. LibraryInv'
    BY LibraryKeeps
  <2>2. ASSUME NEW t \in Library!Threads, Library!Registration(t)
        PROVE  TokensOwed'
    BY <2>2, CallerReleases, ReaderReleases DEF Library!Threads
  <2>3. ASSUME NEW c \in Callers,
               Library!RegisterOwn(c) \/ Library!Call(c) \/ Library!Sending(c)
        PROVE  TokensOwed'
    BY <2>3, CallerReleases, AllocationIsOwed DEF Library!Sending
  <2>4. CASE UNCHANGED Library!vars
    BY <2>1, <2>4 DEF Library!vars, Library!thread, Library!sending, TokensOwed, Owed
  <2>5. QED
    BY <2>1, <2>2, <2>3, <2>4, ReaderReleases DEF Library!Next
<1>3. I => \A t \in in_use : Owed(t)
  BY DEF TokensOwed
<1>4. QED
  BY <1>1, <1>2, <1>3, PTL DEF Library!Spec
=============================================================================
