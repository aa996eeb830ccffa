---------------------------- MODULE MCRilAnswers ----------------------------
(* Instances of RilAnswers for TLC. *)
EXTENDS RilAnswers

(* One request of each kind: with its own handler, without one, and with   *)
(* one the program may register.                                           *)
EachKind == {SetMute, GetMute, InvokeOemRequestHookRaw}
RawID == {"OEM_HOOK_RAW"}
=============================================================================
