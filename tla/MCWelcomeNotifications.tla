----------------------- MODULE MCWelcomeNotifications -----------------------
(* WelcomeNotifications on small instances for TLC. *)
EXTENDS WelcomeNotifications, TLC

CONSTANTS e1, e2

MCOneEventTwice == 1 :> e1 @@ 2 :> e1
MCEventsJunkAndPoison == 1 :> e1 @@ 2 :> None @@ 3 :> e2 @@ 4 :> Poison
MCOneEventOnce == 1 :> e1

ConsumerSymmetry == Permutations(Consumers)
=============================================================================
