SPECIFICATION Spec
CONSTANT Null = Null
INVARIANTS ReceiverSound SenderSound IndexRight
PROPERTY ResendsAdvance
