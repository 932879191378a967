--------------------------- MODULE MCCertificates ---------------------------
\* A certificate of three days that is renewed on the last two.
EXTENDS Certificates
=============================================================================
