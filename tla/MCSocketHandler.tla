-------------------------- MODULE MCSocketHandler --------------------------
(* Three messages, one of them a bare header, on a socket with room for    *)
(* little more than the longest.                                           *)
EXTENDS SocketHandler

MCSizes == <<3, 2, 4>>

=============================================================================
