----------------------------- MODULE PrinterTLS -----------------------------
(***************************************************************************)
(* The identity check of a printer's TLS connection (bambulab/tls.go),     *)
(* made by every LAN connection in place of the library's own.  A          *)
(* certificate is what the check looks at: how its chain to the bundled CA *)
(* verifies, and whether the expected serial is the name in its Subject    *)
(* Alternative Name, if it has that extension, and in its Common Name.     *)
(***************************************************************************)

Certificate == [chain : {"valid", "untrusted", "expired"},
                san   : {"none", "serial", "other"},
                cn    : {"serial", "other"}]

\* Mutant of VerifyConnection: the chain alone decides for a legacy certificate.
VerifyConnectionChain(cert) ==
    IF cert.chain = "untrusted" THEN "authority"
    ELSE IF cert.chain = "expired" THEN "invalid"
    ELSE IF cert.san = "other" THEN "hostname"
    ELSE "none"

\* The class of the error the handshake ends in: that of the chain, or of the SAN,
\* or, without the extension, of a Common Name that is not the serial.
VerifyConnection(cert) ==
    IF cert.chain = "untrusted" THEN "authority"
    ELSE IF cert.chain = "expired" THEN "invalid"
    ELSE IF cert.san = "none"
         THEN IF cert.cn = "serial" THEN "none" ELSE "identity"
         ELSE IF cert.san = "serial" THEN "none" ELSE "hostname"

\* The CA's promise: whoever holds a certificate of a valid chain is the printer it
\* is issued to, by its SAN or, before there were any, by its Common Name.
IssuedTo(cert) == IF cert.san = "none" THEN cert.cn ELSE cert.san
Genuine(cert)  == cert.chain = "valid" /\ IssuedTo(cert) = "serial"
=============================================================================
