----------------------------- MODULE Dispatcher -----------------------------
(***************************************************************************)
(* Dispatcher (Dispatcher.h): a map from ofp_type to callbacks and one     *)
(* default callback.  A dispatcher is a value; a callback is its name, and *)
(* the module that composes the components gives the name its effect.      *)
(***************************************************************************)

CONSTANT NoCallback  \* an empty std::function

\* A new Dispatcher has an empty map and an empty default callback.
NewDispatcher == [funs |-> [type \in {} |-> NoCallback], defaultCallback |-> NoCallback]

\* funs[type] = f: adds the entry, or replaces the one there.
setCallBackOnMessage(d, type, f) ==
  [d EXCEPT !.funs = [t \in DOMAIN d.funs \cup {type} |->
                        IF t = type THEN f ELSE d.funs[t]]]

setDefaultCallback(d, f) == [d EXCEPT !.defaultCallback = f]

\* The callback onMessage calls for a message of this type: the type's own if
\* there is one, the default one otherwise.  NoCallback stands for onError(),
\* which writes a log line and drops the message.
onMessage(d, type) ==
  IF type \in DOMAIN d.funs THEN d.funs[type] ELSE d.defaultCallback
=============================================================================
