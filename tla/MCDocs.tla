------------------------------- MODULE MCDocs -------------------------------
(***************************************************************************)
(* Statements of the repository's own documentation that the program does  *)
(* not live up to.  Each run of this module refutes one of them.           *)
(***************************************************************************)
EXTENDS MCTimelock

(* "Whether or not the sender can transfer the stream" (state.rs:49): with *)
(* that flag, the sender of an open stream can pass it on to a wallet that *)
(* has a token account.                                                    *)
SenderMayTransfer ==
  \A m \in Streams :
    Open(m) /\ meta[m].ix.transferable_by_sender =>
      \A r \in opened \cap Wallets :
        ENABLED transfer_recipient(m, meta[m].sender, r)

(* "Whether or not a stream can be canceled by a sender" (state.rs:43),    *)
(* "depending on the value of cancelable_by_sender and                     *)
(* cancelable_by_recipient" (state.rs:313): only a stream with one of the  *)
(* flags gets a time of cancellation.                                      *)
CanceledOnlyIfCancelable ==
  [][\A m \in Streams :
       LET d == meta[m]
       IN d # NoMeta /\ meta'[m].canceled_at # d.canceled_at =>
            d.ix.cancelable_by_sender \/ d.ix.cancelable_by_recipient]_vars

(* "But when stream expires anyone can cancel" (state.rs:315), "if stream  *)
(* expired anyone can close it" (token.rs:478): any wallet can, as long as *)
(* the token accounts of both parties exist.                               *)
AnyoneMayCancelExpired ==
  \A m \in Streams :
    LET d == meta[m]
    IN Open(m) /\ Expired(m) /\ {d.sender, d.recipient} \subseteq opened =>
         \A c \in Wallets : CancelOk(m, c, d.sender, d.recipient)

(* "Both accounts will be funded to be rent-exempt if necessary. When the  *)
(* stream is finished, these shall be returned to the stream initializer"  *)
(* (token.rs:46): closing a stream returns the rent of the escrow and of   *)
(* the metadata account.                                                   *)
BothRentsReturned ==
  [][\A m \in Streams :
       LET s == meta[m].sender
       IN Open(m) /\ m \notin opened' =>
            lamports'[s] = lamports[s] + TokenRent + MetaRent]_vars
=============================================================================
