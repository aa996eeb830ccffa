----------------------------- MODULE RilClient -----------------------------
(***************************************************************************)
(* The client of the RIL daemon through which the audio HAL controls a     *)
(* call (libvndsecril-client/secril-client.cpp, audio/ril_interface.c).    *)
(* The HAL's requests are made one at a time, under adev->lock; a reader   *)
(* thread takes the daemon's answers and its band reports, and a report    *)
(* makes the reader a caller too.  The daemon hangs up when it likes.      *)
(*                                                                         *)
(* A connection stands for its socket, its command pipe and its reader.    *)
(* The HAL registers no handler for an answer and no error callback.       *)
(***************************************************************************)
EXTENDS Naturals, FiniteSets

CONSTANTS
    MaxConnections, \* bound: how often a connection is made
    MaxRequests,    \* bound: the requests of one call into the HAL
    MaxReports,     \* bound: the daemon's band reports
    PoolSize,       \* TOKEN_POOL_SIZE
    Failures,       \* which of "thread" (none can be created) and "full"
                    \* (the socket's buffer, EAGAIN) may happen
    None

Conns  == 1 .. MaxConnections
Tokens == 1 .. PoolSize
Report == 0   \* in an inbox, beside the tokens
Hal    == 0   \* a caller, beside the readers
Nothing == [sock |-> None, pipe |-> None]

ASSUME RilAssumption ==
    /\ MaxConnections \in Nat /\ MaxReports \in Nat
    /\ MaxRequests \in Nat \ {0} /\ PoolSize \in Nat \ {0}
    /\ Failures \subseteq {"thread", "full"}
    /\ None \notin Nat

VARIABLES
    hal,         \* the framework's thread in the HAL
    caller,      \* who holds adev->lock: Hal, a reader in its callback, None
    step,        \* how far the caller's request is
    left,        \* the requests its call still makes
    token,       \* the token of its request
    joins,       \* the reader that closing the client joins
    sock,        \* the client's socket, None for -1
    b_connect,
    pipefd,      \* the pipe in the client
    tid_reader,
    handler,     \* the band report's handler is registered
    token_pool,  \* the tokens in use
    history,     \* the tokens of the request history, slot by slot, or None
    reader,      \* where a connection's reader is
    watch,       \* the connection and the pipe its select() waits for
    got,         \* the answer it is processing
    gone,        \* the readers whose client has been freed
    fd,          \* our end of a connection
    up,          \* the connections the daemon has not hung up
    told,        \* the pipes in which "close" waits
    reports,     \* how many reports it has sent
    pending,     \* what the daemon has still to answer
    inbox        \* what a reader has still to read
call == <<hal, caller, step, left, token, joins>>
client == <<sock, b_connect, pipefd, tid_reader, handler>>
tokens == <<token_pool, history>>
readers == <<reader, watch, got, gone>>
net == <<fd, up, told, reports, pending, inbox>>
vars == <<call, client, tokens, readers, net>>

Readers == {c \in Conns : reader[c] \notin {"none", "done"}}

Clear(h, t) == \* ClearReqHistory: the first record of the token
    LET found == {i \in Tokens : h[i] = t}
    IN  IF found = {} THEN h
        ELSE [h EXCEPT ![CHOOSE i \in found : \A j \in found : i <= j] = None]

NewClient == \* the fields that OpenClient_RILD zeroes
    /\ sock' = None /\ b_connect' = FALSE /\ pipefd' = None /\ tid_reader' = None
    /\ token_pool' = {} /\ history' = [i \in Tokens |-> None]

(* bionic aborts the process when FD_ISSET or FD_SET is given -1, or when  *)
(* a thread is joined twice; init starts the audio server again.           *)
Abort ==
    /\ NewClient
    /\ hal' = "closed" /\ caller' = None /\ step' = "none" /\ left' = 0 /\ token' = None
    /\ joins' = None
    /\ handler' = FALSE
    /\ reader' = [c \in Conns |-> IF reader[c] = "none" THEN "none" ELSE "done"]
    /\ watch' = [c \in Conns |-> Nothing] /\ got' = [c \in Conns |-> None] /\ gone' = {}
    /\ fd' = [c \in Conns |-> IF fd[c] = "open" THEN "closed" ELSE fd[c]]
    /\ inbox' = [c \in Conns |-> {}] /\ pending' = [c \in Conns |-> {}] /\ told' = {}
    /\ UNCHANGED <<up, reports>>

-----------------------------------------------------------------------------
(* The caller's requests. *)

RegisterUnsolicitedHandler == handler' = TRUE \* a new client has a free slot

ril_open ==
    /\ hal = "closed"
    /\ NewClient /\ RegisterUnsolicitedHandler
    /\ hal' = "idle" /\ joins' = None
    /\ UNCHANGED <<caller, step, left, token, readers, net>>

Enter ==
    /\ hal = "idle" /\ hal' = "calling"
    /\ UNCHANGED <<caller, step, left, token, joins, client, tokens, readers, net>>

Lock(who) == /\ caller = None /\ caller' = who
             /\ step' = "check" /\ left' \in 1 .. MaxRequests
             /\ UNCHANGED <<hal, token, joins>>

LockHal == /\ hal = "calling" /\ Lock(Hal)
           /\ UNCHANGED <<client, tokens, readers, net>>

(* A request is done; after the last one of its call the lock is free. *)
Return ==
    /\ left' = left - 1 /\ token' = None /\ UNCHANGED joins
    /\ IF left > 1
       THEN step' = "check" /\ UNCHANGED <<hal, caller, reader>>
       ELSE /\ step' = "none" /\ caller' = None
            /\ hal' = IF caller = Hal THEN "idle" ELSE hal
            /\ reader' = [c \in Conns |-> IF c = caller THEN "read" ELSE reader[c]]
    /\ UNCHANGED <<watch, got, gone>>

isConnected_RILD == b_connect

ril_connect_if_required ==
    /\ step = "check"
    /\ step' = IF isConnected_RILD THEN "send" ELSE "connect"
    /\ UNCHANGED <<hal, caller, left, token, joins, client, tokens, readers, net>>

Unused == {c \in Conns : fd[c] = "unused"}

(* MUTANT: a refused connection is tried again, with the lock held. *)
Connect_RILD_Retries ==
    /\ step = "connect"
    /\ \/ /\ sock' = None /\ step' = "check"
          /\ UNCHANGED <<hal, caller, left, token, joins, b_connect, pipefd, tid_reader,
                         handler, readers, fd, up>>
       \/ \E c \in Unused :
             /\ \A d \in Unused : c <= d
             /\ sock' = c /\ b_connect' = TRUE /\ step' = "start"
             /\ fd' = [fd EXCEPT ![c] = "open"] /\ up' = up \union {c}
             /\ UNCHANGED <<hal, caller, left, token, joins, pipefd, tid_reader, handler, readers>>
    /\ UNCHANGED <<tokens, told, reports, pending, inbox>>

Connect_RILD ==
    /\ step = "connect"
    /\ \/ /\ sock' = None /\ Return
          /\ UNCHANGED <<b_connect, pipefd, tid_reader, handler, fd, up>>
       \/ \E c \in Unused :
             /\ \A d \in Unused : c <= d
             /\ sock' = c /\ b_connect' = TRUE /\ step' = "start"
             /\ fd' = [fd EXCEPT ![c] = "open"] /\ up' = up \union {c}
             /\ UNCHANGED <<hal, caller, left, token, joins, pipefd, tid_reader, handler, readers>>
    /\ UNCHANGED <<tokens, told, reports, pending, inbox>>

(* The rest of Connect_RILD.  An earlier reader may have closed the socket *)
(* in the meantime.                                                        *)
StartReader ==
    /\ step = "start"
    /\ \/ sock = None /\ Return /\ UNCHANGED <<client, tokens, fd>>
       \/ /\ sock # None
          /\ pipefd' = sock /\ tid_reader' = sock
          /\ reader' = [reader EXCEPT ![sock] = "top"]
          /\ step' = "send"
          /\ UNCHANGED <<hal, caller, left, token, joins, sock, b_connect, handler, tokens,
                         watch, got, gone, fd>>
       \/ /\ sock # None /\ "thread" \in Failures
          /\ fd' = [fd EXCEPT ![sock] = "closed"]
          /\ NewClient /\ handler' = FALSE
          /\ Return
    /\ UNCHANGED <<up, told, reports, pending, inbox>>

(* A setter and SendOemRequestHookRaw up to the first write. *)
SendOemRequestHookRaw ==
    /\ step = "send"
    /\ LET free  == Tokens \ token_pool
           t     == CHOOSE i \in free : \A j \in free : i <= j
           slots == {i \in Tokens : history[i] = None}
           s     == CHOOSE i \in slots : \A j \in slots : i <= j
       IN  \/ /\ sock = None \/ free = {} \/ slots = {} \* no record: the token goes back
              /\ history' = IF sock = None \/ free = {} THEN history ELSE Clear(history, t)
              /\ Return /\ UNCHANGED token_pool
           \/ /\ sock # None /\ free # {} /\ slots # {}
              /\ token_pool' = token_pool \union {t} /\ history' = [history EXCEPT ![s] = t]
              /\ token' = t /\ step' = "write"
              /\ UNCHANGED <<hal, caller, left, joins, readers>>
    /\ UNCHANGED <<client, net>>

(* MUTANT: a request that is over keeps its history record. *)
FreeToken_KeepsRecord == /\ token_pool' = token_pool \ {token}
                         /\ UNCHANGED history
                         /\ Return

FreeToken == /\ token_pool' = token_pool \ {token}
             /\ history' = Clear(history, token)
             /\ Return

Delivered ==
    /\ sock # None /\ fd[sock] = "open" /\ sock \in up
    /\ pending' = [pending EXCEPT ![sock] = @ \union {token}]
    /\ step' = "free"
    /\ UNCHANGED <<hal, caller, left, token, joins, client, tokens, readers, fd>>

(* A failed write closes the socket; only EPIPE resets sock and b_connect, *)
(* for the error of a closed socket is EBADF, not EBADFD.                  *)
WriteFails ==
    /\ \/ sock = None \/ (sock # None /\ fd[sock] = "closed")
       \/ "full" \in Failures /\ sock \in up
    /\ fd' = IF sock = None THEN fd ELSE [fd EXCEPT ![sock] = "closed"]
    /\ FreeToken /\ UNCHANGED <<client, pending>>

HungUp ==
    /\ sock # None /\ fd[sock] = "open" /\ sock \notin up
    /\ fd' = [fd EXCEPT ![sock] = "closed"]
    /\ sock' = None /\ b_connect' = FALSE
    /\ FreeToken /\ UNCHANGED <<pipefd, tid_reader, handler, pending>>

blockingWrite ==
    /\ step = "write"
    /\ Delivered \/ WriteFails \/ HungUp
    /\ UNCHANGED <<up, told, reports, inbox>>

Sent == /\ step = "free" /\ FreeToken
        /\ UNCHANGED <<client, net>>

(* ril_close: Disconnect_RILD, and the one in CloseClient_RILD.  They take *)
(* no lock: a reader that is in its callback may connect in the meantime,  *)
(* and what is written to the pipe of a client without one nobody reads.   *)
Freed == hal' = "closed" /\ gone' = gone \union Readers

Disconnect_RILD(place) ==
    \/ /\ sock = None
       /\ Freed /\ UNCHANGED <<joins, b_connect, told>>
    \/ /\ sock # None
       /\ told' = told \union ({pipefd} \ {None}) /\ b_connect' = FALSE
       /\ \/ /\ hal = "idle" \/ tid_reader # joins
             /\ hal' = place /\ joins' = tid_reader /\ UNCHANGED gone
          \/ /\ hal # "idle" /\ tid_reader = joins   \* joined before: an error
             /\ Freed /\ UNCHANGED joins

ril_close ==
    /\ hal = "idle" /\ Disconnect_RILD("joining")
    /\ UNCHANGED <<caller, step, left, token, sock, pipefd, tid_reader, handler, tokens,
                   reader, watch, got, fd, up, reports, pending, inbox>>

Joined == joins # None /\ reader[joins] = "done"

CloseClient_RILD ==
    /\ hal = "joining" /\ Joined /\ Disconnect_RILD("closing")
    /\ UNCHANGED <<caller, step, left, token, sock, pipefd, tid_reader, handler, tokens,
                   reader, watch, got, fd, up, reports, pending, inbox>>

Close ==
    /\ hal = "closing" /\ Joined /\ Freed
    /\ UNCHANGED <<joins, caller, step, left, token, client, tokens, reader, watch, got, net>>

(* No thread was made, or the same is joined again. *)
JoinFails ==
    /\ \/ hal \in {"joining", "closing"} /\ joins = None
       \/ hal = "joining" /\ Joined /\ sock # None /\ tid_reader = joins
    /\ Abort

-----------------------------------------------------------------------------
(* The reader of connection c (RxReaderFunc). *)

ReaderAt(c, place) == reader[c] = place /\ c \notin gone
Goto(c, place) == reader' = [reader EXCEPT ![c] = place]

Loop(c) ==
    /\ ReaderAt(c, "top")
    /\ IF b_connect THEN Goto(c, "select") /\ watch' = [watch EXCEPT ![c] = [sock |-> sock, pipe |-> pipefd]]
                    ELSE Goto(c, "done") /\ UNCHANGED watch
    /\ UNCHANGED <<call, client, tokens, got, gone, net>>

(* The socket is readable.  With another one in the client, by now, there  *)
(* is nothing to read.                                                     *)
SocketReadable(c) ==
    /\ ReaderAt(c, "select") /\ (inbox[watch[c].sock] # {} \/ watch[c].sock \notin up)
    /\ \/ sock = None /\ Abort
       \/ /\ sock # None
          /\ Goto(c, IF sock = watch[c].sock THEN "read" ELSE "top")
          /\ watch' = [watch EXCEPT ![c] = Nothing]
          /\ UNCHANGED <<call, client, tokens, got, gone, net>>

PipeReadable(c) ==
    /\ ReaderAt(c, "select") /\ watch[c].pipe \in told
    /\ \/ sock = None /\ Abort
       \/ /\ sock # None
          /\ Goto(c, "top")
          /\ fd' = [fd EXCEPT ![sock] = "closed"]
          /\ sock' = None /\ b_connect' = FALSE
          /\ watch' = [watch EXCEPT ![c] = Nothing]
          /\ UNCHANGED <<call, pipefd, tid_reader, handler, tokens, got, gone,
                         up, told, reports, pending, inbox>>

processUnsolicited(c) == Goto(c, IF handler THEN "callback" ELSE "read")

(* It reads the stream that is in the client by then, p_rs, which is made  *)
(* with pipefd: a message, no more (EAGAIN), or an error and the end.      *)
Read(c) ==
    /\ ReaderAt(c, "read") /\ pipefd # None /\ fd[pipefd] = "open"
    /\ \E m \in inbox[pipefd] :
          /\ inbox' = [inbox EXCEPT ![pipefd] = @ \ {m}]
          /\ got' = [got EXCEPT ![c] = IF m = Report THEN None ELSE m]
          /\ IF m = Report THEN processUnsolicited(c) ELSE Goto(c, "answer")
    /\ UNCHANGED <<call, client, tokens, watch, gone, fd, up, told, reports, pending>>

NoMore(c) ==
    /\ ReaderAt(c, "read") /\ pipefd # None /\ fd[pipefd] = "open"
    /\ inbox[pipefd] = {} /\ pipefd \in up
    /\ Goto(c, "top")
    /\ UNCHANGED <<call, client, tokens, watch, got, gone, net>>

ReadFails(c) ==
    /\ ReaderAt(c, "read")
    /\ \/ pipefd = None /\ Abort \* NULL after a failed pthread_create
       \/ /\ pipefd # None
          /\ fd[pipefd] = "closed" \/ (inbox[pipefd] = {} /\ pipefd \notin up)
          /\ Goto(c, "eof")
          /\ UNCHANGED <<call, client, tokens, watch, got, gone, net>>

(* MUTANT: at the end of the stream the socket is closed but not reset. *)
EndOfStream_KeepsSock(c) ==
    /\ ReaderAt(c, "eof")
    /\ Goto(c, "done")
    /\ fd' = IF sock = None THEN fd ELSE [fd EXCEPT ![sock] = "closed"]
    /\ UNCHANGED <<call, client, tokens, watch, got, gone, up, told, reports, pending, inbox>>

(* It closes the socket that is in the client by then. *)
EndOfStream(c) ==
    /\ ReaderAt(c, "eof")
    /\ Goto(c, "done")
    /\ IF sock = None THEN UNCHANGED <<sock, b_connect, fd>>
       ELSE /\ fd' = [fd EXCEPT ![sock] = "closed"]
            /\ sock' = None /\ b_connect' = FALSE
    /\ UNCHANGED <<call, pipefd, tid_reader, handler, tokens, watch, got, gone,
                   up, told, reports, pending, inbox>>

(* processSolicited: the answer's token may be in use again. *)
processSolicited(c) ==
    /\ \/ /\ ReaderAt(c, "answer") /\ got[c] \notin token_pool
          /\ Goto(c, "read") /\ got' = [got EXCEPT ![c] = None] /\ UNCHANGED tokens
       \/ /\ ReaderAt(c, "answer") /\ got[c] \in token_pool
          /\ Goto(c, "free") /\ UNCHANGED <<tokens, got>>
       \/ /\ ReaderAt(c, "free")
          /\ token_pool' = token_pool \ {got[c]}
          /\ Goto(c, "clear") /\ UNCHANGED <<history, got>>
       \/ /\ ReaderAt(c, "clear")
          /\ history' = Clear(history, got[c])
          /\ Goto(c, "read") /\ got' = [got EXCEPT ![c] = None] /\ UNCHANGED token_pool
    /\ UNCHANGED <<call, client, watch, gone, net>>

(* The band callback takes adev->lock; it has nothing to do, or restarts   *)
(* the call with requests of its own.                                      *)
LockReader(c) ==
    /\ ReaderAt(c, "callback") /\ caller = None
    /\ \/ /\ Lock(c) /\ UNCHANGED reader
       \/ /\ Goto(c, "read") /\ UNCHANGED call
    /\ UNCHANGED <<client, tokens, watch, got, gone, net>>

(* A reader that nobody joined uses the freed client. *)
UsesFreed(c) ==
    /\ c \in gone \intersect Readers
    /\ \/ Abort
       \/ /\ c # caller /\ Goto(c, "done")
          /\ UNCHANGED <<call, client, tokens, watch, got, gone, net>>

-----------------------------------------------------------------------------
(* The daemon, the rest of the phone. *)

Answers(c) ==
    /\ c \in up
    /\ \E t \in pending[c] :
          /\ pending' = [pending EXCEPT ![c] = @ \ {t}]
          /\ inbox' = [inbox EXCEPT ![c] = @ \union {t}]
    /\ UNCHANGED <<call, client, tokens, readers, fd, up, told, reports>>

Reports(c) ==
    /\ c \in up /\ reports < MaxReports /\ reports' = reports + 1
    /\ inbox' = [inbox EXCEPT ![c] = @ \union {Report}]
    /\ UNCHANGED <<call, client, tokens, readers, fd, up, told, pending>>

HangsUp(c) ==
    /\ c \in up
    /\ up' = up \ {c} /\ pending' = [pending EXCEPT ![c] = {}]
    /\ UNCHANGED <<call, client, tokens, readers, fd, told, reports, inbox>>

-----------------------------------------------------------------------------
Join == CloseClient_RILD \/ Close \/ JoinFails
Request == /\ caller \notin gone
           /\ \/ ril_connect_if_required \/ Connect_RILD \/ StartReader
              \/ SendOemRequestHookRaw \/ blockingWrite \/ Sent
RxReaderFunc(c) ==
    \/ Loop(c) \/ SocketReadable(c) \/ PipeReadable(c)
    \/ Read(c) \/ NoMore(c) \/ ReadFails(c)
    \/ EndOfStream(c) \/ processSolicited(c) \/ UsesFreed(c)
(* What happens to a connection that nobody reads does not matter. *)
Daemon(c) == (fd[c] = "open" \/ c \in Readers) /\ (Answers(c) \/ Reports(c) \/ HangsUp(c))

Init ==
    /\ hal = "closed" /\ caller = None /\ step = "none" /\ left = 0 /\ token = None
    /\ joins = None
    /\ sock = None /\ b_connect = FALSE /\ pipefd = None /\ tid_reader = None
    /\ handler = FALSE
    /\ token_pool = {} /\ history = [i \in Tokens |-> None]
    /\ reader = [c \in Conns |-> "none"] /\ watch = [c \in Conns |-> Nothing]
    /\ got = [c \in Conns |-> None] /\ gone = {}
    /\ fd = [c \in Conns |-> "unused"] /\ up = {} /\ told = {} /\ reports = 0
    /\ pending = [c \in Conns |-> {}] /\ inbox = [c \in Conns |-> {}]

Next == \/ ril_open \/ Enter \/ LockHal \/ Request \/ ril_close \/ Join
        \/ \E c \in Conns : RxReaderFunc(c) \/ LockReader(c) \/ Daemon(c)

Spec == Init /\ [][Next]_vars

(* Running threads run.  A mutex that is free again and again is taken: no *)
(* caller asks for it in a loop.                                          *)
FairSpec == /\ Spec
            /\ WF_vars(Request) /\ WF_vars(Join)
            /\ \A c \in Conns : WF_vars(RxReaderFunc(c)) /\ SF_vars(LockReader(c))

-----------------------------------------------------------------------------
(* Every field in its range; only an answer is processed as one. *)
TypeOK ==
    /\ hal \in {"closed", "idle", "calling", "joining", "closing"}
    /\ caller \in {Hal, None} \union Conns /\ left \in 0 .. MaxRequests
    /\ step \in {"none", "check", "connect", "start", "send", "write", "free"}
    /\ token \in Tokens \union {None}
    /\ {sock, pipefd, tid_reader, joins} \subseteq Conns \union {None}
    /\ b_connect \in BOOLEAN /\ handler \in BOOLEAN
    /\ token_pool \subseteq Tokens /\ history \in [Tokens -> Tokens \union {None}]
    /\ \A c \in Conns :
          /\ reader[c] \in {"none", "top", "select", "read", "answer", "free", "clear",
                            "callback", "eof", "done"}
          /\ {watch[c].sock, watch[c].pipe} \subseteq Conns \union {None}
          /\ got[c] \in Tokens \union {Report, None}
          /\ reader[c] \in {"answer", "free", "clear"} => got[c] \in Tokens
          /\ fd[c] \in {"unused", "open", "closed"}
          /\ pending[c] \subseteq Tokens /\ inbox[c] \subseteq Tokens \union {Report}
    /\ gone \subseteq Conns /\ up \subseteq Conns /\ told \subseteq Conns /\ reports \in 0 .. MaxReports

(* Requests, answers, errors and reconnects use tokens and records up      *)
(* nowhere: between two requests both tables are empty, although sender    *)
(* and reader free the same token and an answer may be another request's   *)
(* (SendOemRequestHookRaw, processSolicited).                              *)
TokensReturned ==
    step \notin {"write", "free"} =>
        token_pool = {} /\ \A i \in Tokens : history[i] = None

(* A connection that the daemon hung up does not stay the client's, so     *)
(* that a later request connects again (RxReaderFunc's end of stream).     *)
LostConnectionNoticed ==
    \A c \in Conns : (sock = c /\ c \notin up) ~> (sock # c \/ hal = "closed")

(* Whoever holds adev->lock, the framework's call or a reader's callback,  *)
(* gives it up, also when it loses the connection and connects again       *)
(* (Connect_RILD, SendOemRequestHookRaw).  A closing, without the lock,    *)
(* need not return: the callback it waits for may connect again and keep   *)
(* its reader in the loop.                                                 *)
LockReleased == (caller # None) ~> (caller = None)

(* "Stop RILD multi-client.  If client socket was connected, it will be    *)
(* disconnected" (secril-client.h): a closed client leaves no socket open. *)
(* False: the reader that finds b_connect reset before it sees the pipe    *)
(* closes nothing.                                                         *)
ClosedIsDisconnected == hal = "closed" => \A c \in Conns : fd[c] # "open"
=============================================================================
