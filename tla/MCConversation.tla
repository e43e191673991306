----------------------------- MODULE MCConversation -----------------------------
(* Conversation with the messages of the repository's own examples. *)
EXTENDS Conversation

Message(form, says, length, asks) ==
  [form |-> form, says |-> says, length |-> length, asks |-> asks, column |-> FALSE]

MCMessages ==
  { \* "how many customers buy grocery in dec 2026"
    Message("words", {"intent", "metric", "action", "time"}, 8, FALSE),
    \* "northco mart", a question or a reply
    Message("words", {}, 2, FALSE),
    \* "2"
    Message("number", {}, 1, FALSE),
    \* "store name"
    [Message("words", {}, 2, FALSE) EXCEPT !.column = TRUE] }
=============================================================================
