-------------------------- MODULE MCProviderCircuit --------------------------
EXTENDS ProviderCircuit
CONSTANTS r1, r2, r3

\* A text request and two agent requests, with their leases.
MCWindow == [r \in Requests |-> IF r = r1 THEN Cooldown ELSE Cooldown + 2]
=============================================================================
