-------------------------- MODULE MCOperatorBridge --------------------------
\* OperatorBridge started in each of its ways, with bounds of its own for each:
\* live with one client that may start, move and send a heartbeat, with one that
\* outlives its lease, and with two that contend for it; with the follow node,
\* while time passes; a preview whose client comes back late; without the gateway.
EXTENDS OperatorBridge

CONSTANTS c1, c2

As(gateway, dryRun, withNode, one, two, time) ==
  [gateway |-> gateway, dryRun |-> dryRun, node |-> withNode,
   numbers |-> [c \in Clients |-> IF c = c1 THEN one ELSE two], until |-> time]

MCClients == {c1, c2}

MCSetups == {As(TRUE, FALSE, FALSE, 3, 0, 1), As(TRUE, FALSE, FALSE, 1, 0, 2),
             As(TRUE, FALSE, FALSE, 1, 1, 1), As(TRUE, FALSE, TRUE, 1, 0, 1),
             As(TRUE, TRUE, FALSE, 2, 0, 2), As(FALSE, FALSE, FALSE, 0, 0, 2)}

MCFailureSetups == {As(TRUE, FALSE, FALSE, 2, 0, 0)}
=============================================================================
