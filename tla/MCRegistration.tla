--------------------------- MODULE MCRegistration ---------------------------
(* Instances of Registration for TLC.                                       *)
EXTENDS Registration, TLC

CONSTANTS r1, r2, r3, ann, bob, acme

\* ann owns shares of acme, bob does not.
MCRows ==
    {Row("users", ann, {ExternalId("A")}), Row("users", bob, {}),
     Row("entities", acme, {Ticker("ACME"), Lei("L0")}),
     [Row("ownership", ann, {Owner(ann, acme)}) EXCEPT !.shares = 1]}

\* Every handler against rows that exist, rows the seed inserts and rows of each other.
MCBodies ==
    {UserBody("A", TRUE), UserBody("BBG", TRUE), UserBody("B", FALSE),
     EntityBody("MRDN", "L2"), EntityBody("NEW", "L1"), EntityBody("ACME", "L2"),
     PutBody(ann, acme, 2, 3), PutBody(ann, acme, 1, 5), PutBody(ann, acme, 4, 4),
     PutBody(bob, acme, 2, 3), PutBody(bob, acme, 7, 6),
     PutBody(bob, "nowhere", 1, 1), PutBody("nobody", acme, 1, 1),
     PutBody(r1, r1, 9, 9), PutBody(r2, r2, 9, 9), PutBody(r3, r3, 9, 9),
     LeaveBody(r1), LeaveBody(r2), LeaveBody(r3), LeaveBody(ann), LeaveBody("nobody"),
     HookBody(bob), HookBody("nobody"),
     CliUserBody(TRUE), CliUserBody(FALSE), SeedBody}

Symmetric == Permutations(Requests)
=============================================================================
