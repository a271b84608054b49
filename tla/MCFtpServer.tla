------------------------------ MODULE MCFtpServer -----------------------------
(* FtpServer with the commands that a client sends in a session.            *)
EXTENDS FtpServer

\* CWD, SYST and TYPE are like PWD to the server: one reply.
MCSession == {"USER", "PASS", "PORT", "LIST", "NLST", "PWD", "FEAT", "NOOP"}
MCLogin == {"USER", "LIST"}
=============================================================================
