---------------------------- MODULE MCChannelBoard ----------------------------
(* A small instance of ChannelBoard.  The first member may send two         *)
(* messages that end the conversation, so that two handlers hold one        *)
(* report; the second one makes counts cross.                               *)
EXTENDS ChannelBoard, TLC

CONSTANTS m1, m2, a1, a2, b1

TheAuthors == a1 :> m1 @@ a2 :> m1 @@ b1 :> m2

OnceOf(es) == [e \in EnvEvent |-> IF e \in es THEN 1 ELSE 0]

(* The messages of the first member only, who has no token, an older report *)
(* or a token; connections and tokens come and go, statuses are overwritten. *)
Alone == {s \in [asked : {{m1, m2}}, posters : {{}, {m1}}, connected : {{}, {m1}}, opening : BOOLEAN,
                  messages : {{a1, a2}}, budget : {OnceOf(EnvEvent)}] : s.posters \cap s.connected = {}}

Connecting == {[s EXCEPT !.budget = OnceOf(EnvEvent \ {"throw", "lost"})] :
                  s \in {t \in Alone : ~t.opening}}

(* The same without an older report; calls fail and answers get lost. *)
Failing == {[s EXCEPT !.budget = OnceOf(EnvEvent \ {"revoke", "rotate"})] :
               s \in {t \in Alone : t.opening /\ t.posters = {}}}

(* Both members, one of them with two messages, and the header. *)
CountingBoth ==
    [asked : {{m1}, {m1, m2}}, posters : {{}}, connected : {{}}, opening : {TRUE},
     messages : {{a1, a2, b1}}, budget : {OnceOf({"timeout", "restart"})}]

SmallStarts == Connecting \cup Failing \cup CountingBoth
=============================================================================
