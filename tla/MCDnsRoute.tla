----------------------------- MODULE MCDnsRoute -----------------------------
EXTENDS DnsRoute, TLC

=============================================================================
