----------------------------- MODULE MCApproval -----------------------------
EXTENDS ApprovalProperties, TLC

CONSTANTS t1, t2, c1, c2, refund, batch, execute

MCRefund == {refund}
MCTools == {refund, batch}
MCReporting == {batch}
\* full configuration, and the panic move MCP_CAPABILITIES=read
MCConfigs == {MCTools \cup {execute}, {}}
MCRefundConfigs == {{refund, execute}, {}}
MCAllFaults == FaultKinds
MCProcessFaults == FaultKinds \ {"disk"}
MCCancellation == {"cancel"}
MCNoFaults == {}
TaskSymmetry == Permutations({t1, t2})
CliSymmetry == Permutations({c1, c2})
=============================================================================
