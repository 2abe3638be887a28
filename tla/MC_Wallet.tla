----------------------------- MODULE MC_Wallet ------------------------------
(* One account: getnewaddress asks for up to two addresses, the account's  *)
(* hd_index reaches at most 4, and the client posts up to three requests,  *)
(* enough for a request cut short by a crash or a failed derivation to be  *)
(* followed by a retry and by a start that generates an address.          *)
EXTENDS Wallet
=============================================================================
