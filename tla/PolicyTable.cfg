SPECIFICATION Spec
CONSTANTS
    Actions = {"retry_payment", "request_card_update", "issue_refund", "call_customer"}
    DeclineCodes = {"fraudulent", "stolen_card", "insufficient_funds"}
    Amounts = {0, 9999, 10000, 10001}
INVARIANTS AutonomyIffAllClear HardBlockIffFraudSeen
