SPECIFICATION Spec
CONSTANT Noisy = Noisy
INVARIANTS RepliesJudged SearchSound
