-------------------------------- MODULE MCIo --------------------------------
(* A pipe that is smaller than a string with its header, and buffers that  *)
(* are too small, just large enough and larger.                            *)
EXTENDS Io

=============================================================================
