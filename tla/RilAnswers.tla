----------------------------- MODULE RilAnswers -----------------------------
(***************************************************************************)
(* The tables of the RIL client library (libvndsecril-client): threads of  *)
(* a program register handlers and make requests, and the reader thread    *)
(* gives each answer to the handler of its request.  Requests are told     *)
(* apart by a token, a bit of a pool, and the history remembers the        *)
(* request's ID.  mutex_modem covers a request's sending and mutex_token   *)
(* the pool; the handlers, the history and b_del_handler have no lock.     *)
(*                                                                         *)
(* The connection stays up (RilClient models its loss).  A call with       *)
(* invalid arguments returns at once and is left out.                      *)
(***************************************************************************)
EXTENDS Naturals, FiniteSets, Bags

CONSTANTS
    Callers,     \* threads of the program
    Requests,    \* the requests they make
    Handled,     \* the IDs for which they register handlers of their own
    PoolSize,    \* TOKEN_POOL_SIZE
    TableSize,   \* REQ_POOL_SIZE
    MaxSends,    \* bound: the requests made
    Reader,
    None

Tokens == 1 .. PoolSize
Slots  == 1 .. TableSize
Threads == Callers \union {Reader}

VARIABLES
    at,          \* where a thread is
    doing,       \* the request a caller makes, None for a registration only
    token,       \* the token of a thread's request or answer
    reg,         \* the registration a thread makes
    answer,      \* the ID of the request the reader's answer belongs to
    req_handlers,
    b_del_handler,
    mutex_modem, \* who holds it
    token_pool,  \* the tokens in use
    history,     \* slot by slot: [token, id], or Unused
    pending,     \* what the daemon has still to answer, a bag of [token, id]
    runs,        \* how often a handler ran since a token was allocated
    sends        \* the requests made
thread == <<at, doing, token, reg, answer>>
tables == <<req_handlers, b_del_handler>>
sending == <<mutex_modem, token_pool, history, pending, runs, sends>>
vars == <<thread, tables, sending>>

Least(S) == CHOOSE i \in S : \A j \in S : i <= j
Last(S)  == CHOOSE i \in S : \A j \in S : j <= i
Goto(t, place) == at' = [at EXCEPT ![t] = place]

(* Handlers are known by the ID they were registered for. *)
Free   == [id |-> None, handler |-> None]
Unused == [token |-> None, id |-> None]
NoReg  == [id |-> None, handler |-> None, slot |-> None, then |-> None]

-----------------------------------------------------------------------------
(* The requests: the ID, the handler that the call itself registers, and   *)
(* whether it asks for the handler's removal.  A setter removes whatever   *)
(* handler its ID has.                                                     *)

Setter(id) == [id |-> id, registers |-> TRUE, handler |-> None, once |-> FALSE]

SetCallVolume         == Setter("SET_CALL_VOLUME")
SetCallAudioPath      == Setter("SET_AUDIO_PATH")
SetCallClockSync      == Setter("SET_CALL_CLOCK_SYNC")
SetVideoCallClockSync == Setter("SET_CALL_VT_CTRL")
SetCallRecord         == Setter("SET_CALL_RECORDING")
SetMute               == Setter("SET_CALL_MUTE")
SetTwoMicControl      == Setter("SET_TWO_MIC_CTRL")
SetDhaSolution        == Setter("SET_DHA_CTRL")
SetLoopbackTest       == Setter("SET_LOOPBACK")
SetAudioMode          == Setter("SET_AUDIO_MODE")
SetSoundClockMode     == Setter("SET_CLOCK_MODE")
SetupPublicSafetyPdn  == Setter("SET_PDN") \* its handler parameter is not used
GetMute == [id |-> "GET_CALL_MUTE", registers |-> TRUE, handler |-> "GET_CALL_MUTE", once |-> TRUE]
InvokeOemRequestHookRaw ==
    [id |-> "OEM_HOOK_RAW", registers |-> FALSE, handler |-> None, once |-> FALSE]

AllRequests ==
    {SetCallVolume, SetCallAudioPath, SetCallClockSync, SetVideoCallClockSync, SetCallRecord,
     SetMute, SetTwoMicControl, SetDhaSolution, SetLoopbackTest, SetAudioMode,
     SetSoundClockMode, SetupPublicSafetyPdn, GetMute, InvokeOemRequestHookRaw}
IDs == {r.id : r \in AllRequests}

ASSUME RilAnswersAssumption ==
    /\ Requests \subseteq AllRequests /\ Handled \subseteq IDs
    /\ {PoolSize, TableSize} \subseteq Nat \ {0} /\ MaxSends \in Nat
    /\ Reader \notin Callers /\ None \notin Nat

-----------------------------------------------------------------------------
(* RegisterRequestCompleteHandler, by a caller or by the reader: the slots *)
(* are searched and then one of them is changed.                           *)

Register(t, id, handler, then) ==
    /\ reg' = [reg EXCEPT ![t] = [id |-> id, handler |-> handler, slot |-> None, then |-> then]]
    /\ Goto(t, "search")

Search(t) ==
    /\ at[t] = "search"
    /\ LET match == {s \in Slots : req_handlers[s].id = reg[t].id}
           empty == {s \in Slots : req_handlers[s].id = None}
       IN  IF match # {} THEN /\ reg' = [reg EXCEPT ![t].slot = Last(match)] /\ Goto(t, "update")
           ELSE IF reg[t].handler # None /\ empty # {}
           THEN reg' = [reg EXCEPT ![t].slot = Least(empty)] /\ Goto(t, "fill")
           ELSE Goto(t, reg[t].then) /\ reg' = [reg EXCEPT ![t] = NoReg]
    /\ UNCHANGED <<doing, token, answer, tables, sending>>

Registered(t) == Goto(t, reg[t].then) /\ reg' = [reg EXCEPT ![t] = NoReg]

UpdateSlot(t) ==
    /\ at[t] = "update"
    /\ req_handlers' = IF reg[t].handler = None THEN [req_handlers EXCEPT ![reg[t].slot] = Free]
                       ELSE [req_handlers EXCEPT ![reg[t].slot].handler = reg[t].handler]
    /\ Registered(t)
    /\ UNCHANGED <<doing, token, answer, b_del_handler, sending>>

FillSlot(t) ==
    /\ \/ /\ at[t] = "fill" /\ Goto(t, "fill handler") /\ UNCHANGED reg
          /\ req_handlers' = [req_handlers EXCEPT ![reg[t].slot].id = reg[t].id]
       \/ /\ at[t] = "fill handler" /\ Registered(t)
          /\ req_handlers' = [req_handlers EXCEPT ![reg[t].slot].handler = reg[t].handler]
    /\ UNCHANGED <<doing, token, answer, b_del_handler, sending>>

-----------------------------------------------------------------------------
(* A caller. *)

RegisterOwn(c) ==
    /\ at[c] = "idle"
    /\ \E id \in Handled, h \in BOOLEAN : Register(c, id, IF h THEN id ELSE None, "idle")
    /\ UNCHANGED <<doing, token, answer, tables, sending>>

Call(c) ==
    /\ at[c] = "idle" /\ sends < MaxSends
    /\ sends' = sends + 1
    /\ \E r \in Requests :
          /\ doing' = [doing EXCEPT ![c] = r]
          /\ b_del_handler' = (b_del_handler \/ r.once)
          /\ IF r.registers THEN Register(c, r.id, r.handler, "send")
                            ELSE Goto(c, "send") /\ UNCHANGED reg
    /\ UNCHANGED <<token, answer, req_handlers, mutex_modem, token_pool, history, pending, runs>>

(* The request is over; one that failed removes the handler of its ID. *)
Ends(c, failed) ==
    /\ mutex_modem' = None
    /\ doing' = [doing EXCEPT ![c] = None] /\ token' = [token EXCEPT ![c] = None]
    /\ IF failed /\ doing[c].registers THEN Register(c, doing[c].id, None, "idle")
       ELSE Goto(c, "idle") /\ UNCHANGED reg

(* SendOemRequestHookRaw. *)
AllocateToken(c) ==
    /\ at[c] = "send" /\ mutex_modem = None
    /\ LET free == Tokens \ token_pool
           t    == Least(free)
       IN  IF free = {} THEN Ends(c, TRUE) /\ UNCHANGED <<token_pool, runs>>
           ELSE /\ mutex_modem' = c /\ token_pool' = token_pool \union {t}
                /\ token' = [token EXCEPT ![c] = t] /\ runs' = [runs EXCEPT ![t] = 0]
                /\ Goto(c, "record") /\ UNCHANGED <<doing, reg>>
    /\ UNCHANGED <<answer, tables, history, pending, sends>>

RecordReqHistory(c) ==
    /\ at[c] = "record"
    /\ LET empty == {s \in Tokens : history[s] = Unused}
       IN  IF empty = {} THEN Goto(c, "fail free") /\ UNCHANGED history
           ELSE /\ history' = [history EXCEPT ![Least(empty)] =
                                  [token |-> token[c], id |-> doing[c].id]]
                /\ Goto(c, "write")
    /\ UNCHANGED <<doing, token, reg, answer, tables, mutex_modem, token_pool, pending, runs, sends>>

blockingWrite(c) ==
    /\ at[c] = "write" /\ Goto(c, "check")
    /\ pending' = pending (+) SetToBag({[token |-> token[c], id |-> doing[c].id]})
    /\ UNCHANGED <<doing, token, reg, answer, tables, mutex_modem, token_pool, history, runs, sends>>

(* The slots of the handlers that a token's records name, in the order of  *)
(* the search.                                                             *)
FindReqHandler(t) ==
    LET Named(i) == {s \in Slots : req_handlers[s].id = history[i].id}
        found    == {i \in Tokens : history[i].token = t /\ Named(i) # {}}
    IN  IF found = {} THEN Free ELSE req_handlers[Least(Named(Least(found)))]

(* "to prevent token pool overflow": nobody waits for the answer. *)
CheckHandler(c) ==
    /\ at[c] = "check"
    /\ \/ FindReqHandler(token[c]).handler = None /\ Goto(c, "free") /\ UNCHANGED <<doing, token, reg, mutex_modem>>
       \/ FindReqHandler(token[c]).handler # None /\ Ends(c, FALSE)
    /\ UNCHANGED <<answer, tables, token_pool, history, pending, runs, sends>>

FreeToken(c) ==
    /\ \/ at[c] = "free" /\ Goto(c, "clear")
       \/ at[c] = "fail free" /\ Goto(c, "fail clear")
    /\ token_pool' = token_pool \ {token[c]}
    /\ UNCHANGED <<doing, token, reg, answer, tables, mutex_modem, history, pending, runs, sends>>

(* The first record of the token. *)
Clear(t) ==
    LET found == {i \in Tokens : history[i].token = t}
    IN  IF found = {} THEN history ELSE [history EXCEPT ![Least(found)] = Unused]

ClearReqHistory(c) ==
    /\ \/ at[c] = "clear" /\ Ends(c, FALSE)
       \/ at[c] = "fail clear" /\ Ends(c, TRUE)
    /\ history' = Clear(token[c])
    /\ UNCHANGED <<answer, tables, token_pool, pending, runs, sends>>

-----------------------------------------------------------------------------
(* The reader (processSolicited).  An answer whose token is not in use is  *)
(* refused.                                                                *)

ReadAnswer ==
    /\ at[Reader] = "idle"
    /\ \E a \in BagToSet(pending) :
          /\ pending' = pending (-) SetToBag({a})
          /\ IF a.token \notin token_pool THEN UNCHANGED <<at, token, answer>>
             ELSE /\ Goto(Reader, "read") /\ answer' = a.id
                  /\ token' = [token EXCEPT ![Reader] = a.token]
    /\ UNCHANGED <<doing, reg, tables, mutex_modem, token_pool, history, runs, sends>>

(* MUTANT: after an error the answer is dropped at once. *)
NoHandler_Returns ==
    /\ at[Reader] = "read" /\ Goto(Reader, "idle")
    /\ UNCHANGED <<doing, token, reg, answer, tables, sending>>

(* An error answer, which only the error callback gets, or one without a   *)
(* handler.                                                                *)
NoHandler ==
    /\ at[Reader] = "read" /\ Goto(Reader, "free")
    /\ UNCHANGED <<doing, token, reg, answer, tables, sending>>

(* MUTANT: after the handler the token is not given back. *)
RunHandler_KeepsToken ==
    /\ at[Reader] = "read"
    /\ LET h == FindReqHandler(token[Reader])
       IN  /\ h.handler # None
           /\ runs' = [runs EXCEPT ![token[Reader]] = @ + 1]
           /\ IF b_del_handler THEN Register(Reader, h.id, None, "idle")
              ELSE Goto(Reader, "idle") /\ UNCHANGED reg
    /\ b_del_handler' = FALSE
    /\ UNCHANGED <<doing, token, answer, req_handlers, mutex_modem, token_pool, history, pending, sends>>

(* The handler runs; then one is removed if any request asked for that.    *)
RunHandler ==
    /\ at[Reader] = "read"
    /\ LET h == FindReqHandler(token[Reader])
       IN  /\ h.handler # None
           /\ runs' = [runs EXCEPT ![token[Reader]] = @ + 1]
           /\ IF b_del_handler THEN Register(Reader, h.id, None, "free")
              ELSE Goto(Reader, "free") /\ UNCHANGED reg
    /\ b_del_handler' = FALSE
    /\ UNCHANGED <<doing, token, answer, req_handlers, mutex_modem, token_pool, history, pending, sends>>

ReaderFrees ==
    /\ at[Reader] = "free" /\ Goto(Reader, "clear")
    /\ token_pool' = token_pool \ {token[Reader]}
    /\ UNCHANGED <<doing, token, reg, answer, tables, mutex_modem, history, pending, runs, sends>>

ReaderClears ==
    /\ at[Reader] = "clear" /\ Goto(Reader, "idle")
    /\ history' = Clear(token[Reader])
    /\ token' = [token EXCEPT ![Reader] = None] /\ answer' = None
    /\ UNCHANGED <<doing, reg, tables, mutex_modem, token_pool, pending, runs, sends>>

-----------------------------------------------------------------------------
Registration(t) == Search(t) \/ UpdateSlot(t) \/ FillSlot(t)
Sending(c) == \/ AllocateToken(c) \/ RecordReqHistory(c) \/ blockingWrite(c)
              \/ CheckHandler(c) \/ FreeToken(c) \/ ClearReqHistory(c)
processSolicited == ReadAnswer \/ NoHandler \/ RunHandler \/ ReaderFrees \/ ReaderClears

Init ==
    /\ at = [t \in Threads |-> "idle"] /\ doing = [c \in Callers |-> None]
    /\ token = [t \in Threads |-> None] /\ reg = [t \in Threads |-> NoReg] /\ answer = None
    /\ req_handlers = [s \in Slots |-> Free] /\ b_del_handler = FALSE
    /\ mutex_modem = None /\ token_pool = {} /\ history = [s \in Tokens |-> Unused]
    /\ pending = EmptyBag /\ runs = [t \in Tokens |-> 0] /\ sends = 0

Next == \/ \E t \in Threads : Registration(t)
        \/ \E c \in Callers : RegisterOwn(c) \/ Call(c) \/ Sending(c)
        \/ processSolicited

Spec == Init /\ [][Next]_vars

(* Running threads run, and the daemon answers every request. *)
FairSpec == /\ Spec /\ WF_vars(processSolicited)
            /\ \A t \in Threads : WF_vars(Registration(t))
            /\ \A c \in Callers : SF_vars(Sending(c))

-----------------------------------------------------------------------------
(* A handler runs at most once for a token in use, although the answer of  *)
(* an earlier request with the same token may come in between and the      *)
(* reader and the sender free the same token (processSolicited).           *)
HandlerRunsOnce == \A t \in Tokens : runs[t] <= 1

(* "To prevent token pool overflow": however registrations, requests and   *)
(* answers interleave, no token stays in use when the answers have come,   *)
(* refused and unwanted ones included.                                     *)
TokensComeBack == \A t \in Tokens : t \in token_pool ~> t \notin token_pool

(* The history forgets a request when its token is free.  False: the       *)
(* reader frees a token that the sender freed before it, and that is the   *)
(* next request's by then; the answer of that one is refused, and its      *)
(* record stays.                                                           *)
RecordsComeBack ==
    \A t \in Tokens : LET recorded == \E s \in Tokens : history[s].token = t
                      IN  recorded ~> ~recorded

(* "Find request handler for the token": the answer goes to the handler of *)
(* its own request.  False: a request without a handler gives its token    *)
(* back before its answer comes, and the next request takes it.            *)
OwnAnswer ==
    at[Reader] = "read" =>
        FindReqHandler(token[Reader]).handler \in {None, answer}
=============================================================================
