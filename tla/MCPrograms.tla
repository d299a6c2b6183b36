----------------------------- MODULE MCPrograms -----------------------------
(* The sessions of Programs for TLC.                                       *)
EXTENDS Programs

\* No send, headers and acknowledgements, or everything but the largest
\* messages completes at once.
Limits == {0, IntSize, 2 * IntSize}

Run(client, server, limits, signals) ==
  [client : {client}, server : {server}, clients : {{"c1"}}, count : {2},
   eager : limits, signal : signals]

\* Two processes, which share the dispatching thread and the pool.
RunTwo(client, server) ==
  [client : {client}, server : {server}, clients : {{"c1", "c2"}}, count : {1},
   eager : {0, 2 * IntSize}, signal : {FALSE}]

No == {FALSE}

\* Every client with the servers it can talk to.  The server of the RMA test never
\* receives, so its client's last send is eager.
EchoServers == {"echo_lfi_server_seq", "echo_lfi_server_async", "echo_lfi_server_async_auto",
                "echo_lfi_server", "echo_lfi_server_async_tpool"}
EchoClients == {"echo_lfi_client_recv", "echo_lfi_client_interval",
                "echo_lfi_client_send", "echo_lfi_client_send_async"}
EchoPairs == EchoClients \X EchoServers

AllSessions ==
  Run("bw_lfi_client", "bw_lfi_server", Limits, No)
  \cup Run("bw_lfi_client", "bw_lfi_server_tpool", Limits, No)
  \cup Run("bw_lfi_client_async", "bw_lfi_server_async", Limits, No)
  \cup Run("bw_lfi_client_async", "bw_lfi_server_tpool", Limits, No)
  \cup Run("bw_lfi_client_invert", "bw_lfi_server_invert", Limits, No)
  \cup Run("bw_lfi_any_comm_client", "bw_lfi_any_comm_server", Limits, No)
  \cup UNION {Run(p[1], p[2], Limits, BOOLEAN) : p \in EchoPairs}
  \cup UNION {RunTwo(p[1], p[2]) : p \in EchoPairs}
  \cup Run("echo_lfi_client_interval_send", "echo_lfi_server_recv", Limits, BOOLEAN)
  \cup Run("echo_lfi_client_interval_send", "echo_lfi_server_recv_any", Limits, BOOLEAN)
  \cup Run("echo_lfi_client_interval_recv", "echo_lfi_server_send", Limits, BOOLEAN)
  \cup Run("echo_lfi_client_interval_rma", "echo_lfi_server_rma", Limits \ {0}, No)
  \cup Run("simple_lfi_client", "simple_lfi_server", Limits, No)
  \cup Run("simple_lfi_client", "multi_lfi_server", Limits, No)
  \cup Run("simple_lfi_client_async", "multi_lfi_server", Limits, No)
  \cup Run("simple_lfi_client_pp", "simple_lfi_server_pp", Limits, No)
  \cup RunTwo("simple_lfi_client_any_comm", "simple_lfi_server_any_comm")
  \cup Run("simple_lfi_client_rma", "simple_lfi_server_rma", Limits, No)

TwoSizes == <<2, 2 * IntSize>>
=============================================================================
