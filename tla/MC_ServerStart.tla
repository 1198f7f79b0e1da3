--------------------------- MODULE MC_ServerStart ---------------------------
(* Two processes, both transports, four starts and one removal. *)
EXTENDS ServerStart

TransportsVal == {"quic", "grpc"}
=============================================================================
