---------------------------- MODULE MCMerchants ----------------------------
(* Two registrations of one e-mail; the first one's merchant changes its   *)
(* password, generates a key, and updates its profile twice, the second    *)
(* time with the URL it was registered with.                               *)
EXTENDS Merchants

CONSTANTS first, second, pass, key, patch, undo

MCEmailOf == [q \in Requests |-> "e"]
MCColumns == {"password", "key", "url", "mode"}

Gives(q) == CASE q \in Registrations -> {"password", "url"}
              [] q = pass            -> {"password"}
              [] q = key             -> {"key"}
              [] q = patch           -> {"url", "mode"}
              [] q = undo            -> {"url"}
MCSets  == [q \in Requests |-> [c \in Gives(q) |-> IF q = undo THEN first ELSE q]]
MCKnows == [q \in Requests |-> first]

MCWeathers == {{"db"}, {"operator"}}
=============================================================================
