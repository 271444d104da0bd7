--------------------------- MODULE ExtractorTable ---------------------------
(***************************************************************************)
(* The twenty-one extractors ExtractAll starts, and what ExtractAll can    *)
(* tell them apart by: which shared stream of the LedgerInput an extractor *)
(* walks, whether it hands a decode failure of that stream on or logs it   *)
(* and returns empty rows, and whether its own body can return an error.   *)
(***************************************************************************)
EXTENDS Naturals

Streams == {"transactions", "changes"}

\* The order of the collect calls in ExtractAll.
CollectOrder ==
    << "ledgers", "transactions", "operations", "effects", "trades",
       "accounts", "trustlines", "account_signers", "offers",
       "claimable_balances", "liquidity_pools", "config_settings", "ttl",
       "native_balances", "contract_events", "contract_data",
       "contract_code", "contract_creations", "token_transfers",
       "evicted_keys", "restored_keys" >>

TransactionReaders ==
    { "transactions", "operations", "effects", "trades", "contract_events",
      "contract_creations", "ttl" }

ChangeReaders ==
    { "accounts", "trustlines", "account_signers", "offers",
      "claimable_balances", "liquidity_pools", "config_settings",
      "native_balances", "contract_data", "contract_code", "restored_keys" }

\* These read input.LCM themselves (token_transfers through an SDK processor).
LedgerReaders == { "ledgers", "token_transfers", "evicted_keys" }

AllExtractors == TransactionReaders \cup ChangeReaders \cup LedgerReaders

UsesStream(e) == e \notin LedgerReaders

StreamOf(e) == IF e \in TransactionReaders THEN "transactions" ELSE "changes"

\* Extractors that answer a failed stream with empty rows and a nil error.
Swallowers ==
    ChangeReaders \cup { "contract_events", "contract_creations", "ttl" }

\* Extractors whose body can return an error of its own: an unknown
\* LedgerCloseMeta version, a transaction whose fields cannot be marshalled,
\* and the SDK's token-transfer processor.
BodyErrs == { "ledgers", "transactions", "token_transfers" }

Position(e) == CHOOSE i \in DOMAIN CollectOrder : CollectOrder[i] = e
=============================================================================
