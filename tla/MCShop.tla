------------------------------- MODULE MCShop -------------------------------
(* The parts of a business on small instances, one moving at a time: one    *)
(* instance of each in autumn, when the clock repeats a minute, and another *)
(* of some in spring, when it skips one.                                    *)
EXTENDS Shop, TLC

Alone(parts) == {{p} : p \in parts}

\* Both seasons.
MCPlanLength == [MONTHLY |-> 1, YEARLY |-> 2]

\* The keys of the environment that a checkout needs, or all.
MCEnvs == {[integrity |-> 1, events |-> None], [integrity |-> 1, events |-> 1]}


SpringScenes ==
  Alone({"accounts", "subscription", "contacts", "notices", "menu", "hours"})

\* Sessions and resets; people; reminders; names.
SpringHandlers ==
  [accounts |-> {"login", "refresh", "logout", "forgot", "reset"},
   contacts |-> {"book", "create", "edit", "delete"},
   notices |-> {"reminders", "crash"},
   menu |-> {"write"}]

\* Names of which one is the other with a number.
SpringNames == {<<1>>, <<1, 2>>}
SpringIntervals == {<<16, 18>>, <<8, 12>>, <<7, 17>>}
SpringBefore == -4
SpringAfter == -2

AutumnScenes ==
  Alone({"accounts", "registration", "contacts", "notices", "settings", "menu", "hours",
         "reports", "keys"})

\* Access of professionals; conversations; events; the menu and its categories.
AutumnHandlers ==
  [accounts |-> {"login", "invite", "resend", "revoke", "remove", "reset"},
   contacts |-> {"book", "create", "delete", "chat"},
   notices |-> {"events", "crash"},
   menu |-> {"write", "menu", "arrange"}]

\* The addresses professionals can be invited at are interchangeable.
Addressees == Permutations(Users \ {Owner})

AutumnNames == {<<1>>}
AutumnIntervals == {<<16, 18>>}
AutumnBefore == -2
AutumnAfter == -4
=============================================================================
