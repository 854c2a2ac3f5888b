SPECIFICATION Spec
CONSTANTS
    Sub = {s1}
    Delivery = {d1, d2}
    MaxEvents = 3
INVARIANTS
    AcknowledgedIsCreated
    
PROPERTIES
    CheckoutGetsLicense
