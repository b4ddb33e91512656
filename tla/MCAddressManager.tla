-------------------------- MODULE MCAddressManager --------------------------
EXTENDS AddressManager
=============================================================================
