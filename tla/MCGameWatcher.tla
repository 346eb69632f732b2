--------------------------- MODULE MCGameWatcher ---------------------------
(* GameWatcher for TLC: the detections are numbered. *)
EXTENDS GameWatcher, Naturals

\* Bound: nothing follows a crash, so a dead process is looked at once and not kept.
Running == crash = "none"

\* The detections differ in nothing but their name: they come in its order.
InOrder == \A v, w \in Watch : v < w /\ wPc[v] = "off" => wPc[w] = "off"

\* Bound: WatchGames is not called again when there is no detection left to make.
NoIdleTurn == loop = "dialing" => \E w \in Watch : wPc[w] = "off"

\* Bound: admin:clear or the shutdown of the server, not one during the other, and
\* the shutdown (which cancels the same contexts) once all detections were made.
OneCancel == shutdown => ~cleared /\ (\A w \in Watch : wPc[w] # "off")

=============================================================================
