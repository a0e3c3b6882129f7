---------------------------- MODULE MCPactKernel ----------------------------
(* Instances of PactKernel for TLC.                                        *)
EXTENDS PactKernel, TLC

CONSTANTS p1, p2, c1, c2, k1

Supply  == [name |-> "supply", amount |-> 2, counterparty |-> "provider"]
Retain  == [name |-> "retain", amount |-> 1, counterparty |-> "owner"]

\* Room for both proposals one after the other, never for both at once, but a
\* third of a period's limit would be left.
Wide ==
    [name |-> "wide", previous |-> None, revision |-> 1, active |-> TRUE,
     authorizes |-> TRUE, from |-> 0, until |-> 9, permits |-> {Supply, Retain} \cap Proposals,
     maxExposure |-> 2, maxConcurrent |-> 1, maxPerPeriod |-> 3]
\* A revision that permits less and starts later, and one that ends.
Narrow ==
    [Wide EXCEPT !.name = "narrow", !.previous = "wide", !.revision = 2,
                 !.permits = {Retain}, !.from = 1]
Stopped ==
    [Wide EXCEPT !.name = "stopped", !.previous = "wide", !.revision = 2,
                 !.active = FALSE]

Cmd(nonce, op, target, arg) ==
    [nonce |-> nonce, op |-> op, target |-> target, arg |-> arg, until |-> 2]

Install == Cmd(0, "install_plugin", None, "active")
MCOneRemedy == {Install, Cmd(1, "resolve_gaia", k1, "replacement_pact")}
\* The case is decided twice.
MCDispute ==
    {Install, Cmd(1, "resolve_gaia", k1, "replacement_pact"),
              Cmd(2, "resolve_gaia", k1, "dismiss")}
\* The Agent is stopped for a while, unless that command is too old by then.
MCRule ==
    {Install, [Cmd(1, "set_agent_status", None, "paused") EXCEPT !.until = 1],
              Cmd(1, "set_agent_status", None, "revoked"),
              Cmd(2, "set_agent_status", None, "active")}

\* Pacts and Paycards are interchangeable.
Alike == Permutations(PactIds) \cup Permutations(Paycards)

MCWide == {Wide}
MCRevised == {Wide, Narrow, Stopped}
MCSupply == {Supply}
MCBoth == {Supply, Retain}
=============================================================================
