------------------------------ MODULE MCEngine ------------------------------
(* Instances of Engine: two writes, one of them of two operations, over the *)
(* three kinds of engine.                                                   *)
EXTENDS Engine

MCAccounts == {"ann", "bob"}

Once(cmds) == cmds \X {1}
World(kind, writes, triggers, sessions, messy, owned) ==
  [mode |-> kind, writes |-> writes, triggers |-> triggers,
   logins |-> sessions, untidy |-> messy, known |-> owned]

\* A write sent again, beside a sync; two writes in line; writes of a terminal
\* beside a sync, and while another process signs in; sign-ins and sign-outs.
MCWorlds ==
  {World("server", {"w1"} \X (1..Tries), {"t1"}, 0, FALSE, FALSE),
   World("server", Once({"w1", "w2"}), {}, 0, TRUE, FALSE),
   World("terminal", {"w1"} \X (1..Tries), {"t1"}, 0, FALSE, TRUE),
   World("terminal", Once({"w2"}), {"t1"}, 1, TRUE, FALSE),
   World("terminal", Once({"w1", "w2"}), {}, 0, FALSE, FALSE),
   World("accounts", Once({"w2"}), {}, 2, FALSE, TRUE),
   World("accounts", {}, {"t1"}, 2, FALSE, FALSE)}

MCServerWorlds == {w \in MCWorlds : w.mode = "server"}
=============================================================================
