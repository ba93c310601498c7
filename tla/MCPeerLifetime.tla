---------------------------- MODULE MCPeerLifetime ----------------------------
EXTENDS PeerLifetime

(* Every call that may throw but those of CUDABuffer after its cudaMalloc. *)
SafeCalls == Objects \cup {"bindcq", "bindav", "enable", "insert", "alloc",
                          "region", "check"}
CudaCalls == {"export", "dmabuf"}

(* recv_buffer_, send_buffer_, read_buffer_ and write_buffer_ of a Conn.   *)
ReadWrite == {3, 4}
=============================================================================
