---------------------------- MODULE MCExecution ----------------------------
(* The deployments, submissions and profiles of the TLC instances of Execution. *)
EXTENDS Execution

Sub(target, preset, shots, overrides) ==
    [target |-> target, preset |-> preset, shots |-> shots, overrides |-> overrides]

\* Guards off, and a window that takes the backaction over its threshold.
Open == [DefaultProfile EXCEPT !.thermal_guard_enabled = FALSE, !.probe_window_ns = 1000]
MCProfiles == {Open}

Deployed(simulation) ==
    [env |-> {"ENABLE_AZURE_SDK_STUB", "AZURE_API_KEY", "AZURE_QUEUE_BUSY", "qiskit", "qiskit_aer"},
     payload |-> {"aws_braket"}, qiskit |-> {}, allow_remote |-> TRUE,
     allow_simulation |-> simulation]
MCDeployments == {Deployed(TRUE), Deployed(FALSE)}

\* A provider that is always busy, one that runs batches, the simulator with a cap
\* above and below its first batch, a payload, a budget above the provider's limit,
\* no budget.
MCSubmissions == {
    Sub("azure_quantum", "other", 3, Open), Sub("ibm_quantum", "grover", 2, NoProfile),
    Sub("sim_local", "grover", 4, NoProfile), Sub("sim_local", "grover", 1, NoProfile),
    Sub("aws_braket", "other", 3, NoProfile), Sub("ionq_cloud", "other", 9, NoProfile),
    Sub("sim_local", "other", 0, NoProfile) }
=============================================================================
