CONSTANTS
    Totals <- MCTotals
    MaxRecipients <- MCMaxRecipients
    Bounds <- MCBounds

SPECIFICATION Spec

INVARIANT EveryRecipientFunded
